---- MODULE Spec2Model ----
(***************************************************************************)
(* Sprintly: capacity gate, repair merge and pipeline orchestrator.        *)
(*                                                                         *)
(* The specifications of this module:                                      *)
(*   SpecGate     - CapacityGate (utils/capacityGate): tryEnter / exit /   *)
(*                  has / atCapacity / size, called in any order.          *)
(*   SpecFix      - applyFixes (both verifier versions) as a pure function *)
(*                  of a base artifact list and a patch list.              *)
(*   SpecPipeline - runPipeline with runPlanner, runBuilder, runVerifier   *)
(*                  and buildProject, one action per await point.          *)
(*   SpecBackoff  - withBackoff, LLMClient.generate and generateForStep.   *)
(*   SpecTools    - the module-level project builder slot of llm/client    *)
(*                  under the tool invocations of concurrent tasks.        *)
(*   SpecNormalize - normalizeGenerateResult (both definitions).           *)
(*   SpecValidate - validateFiles, applyFixes and validateFiles again.     *)
(* Each specification moves only its own variables; the others keep the    *)
(* idle value given by its Init.                                           *)
(***************************************************************************)
EXTENDS Integers, Sequences, FiniteSets, TLC

VARIABLES
    limit,      \* CapacityGate.limit (constructor argument)
    active,     \* CapacityGate.active : Set<string>
    hist,       \* ghost: the calls made on the gate so far, with their results
    fxPc,       \* applyFixes: "input" before the call, then the version applied
    fxFiles,    \* applyFixes: the files argument (ProjectFile[])
    fxFixes,    \* applyFixes: the fixedFiles argument
    fxOut,      \* applyFixes: the array returned
    fxFilesAfter, \* applyFixes: the files argument as the caller finds it afterwards
    pc,         \* runPipeline: the await it is suspended at, "returned" or "raised"
    plan,       \* runPipeline: plannerResult.plan
    buildResult, \* runPipeline: buildResult
    validation, \* runVerifier: validation.issues
    verifyResult, \* runPipeline: verifyResult
    zipArg,     \* the file list handed to buildProject
    result,     \* the PipelineResult runPipeline resolved with
    thrown,     \* the error runPipeline rejected with
    timings,    \* runPipeline: timings (the step of each entry)
    totalUsage, \* runPipeline: totalUsage
    trace,      \* ghost: start and end of every stage, in the order they happened
    calls,      \* ghost: the generateForStep calls made, in order
    repair,     \* ghost: how the repair model call ended
    replies,    \* ghost: the text every resolved model call came back with, in order
    onStepComplete, \* runPipeline: options.onStepComplete (given or not), ghost: the steps it was invoked with
    boIn,       \* retry layer: the limits and the outcomes the operation will have
    wb,         \* withBackoff (utils/backoff with fallback): attempt, lastError, ghosts
    gen,        \* LLMClient.generate: attempt, lastError, ghosts
    gfs,        \* LLMClient.generateForStep: ghosts
    ub,         \* withBackoff (earlier utils/backoff.ts): attempt, lastError, ghosts
    fxTwice,    \* applyFixes: the array returned when fxOut is patched with fxFixes again
    activeProjectBuilder, \* llm/client: the module-level builder slot
    toolLog,    \* ghost: the tool invocations made so far, with what they returned
    nzPc,       \* normalizeGenerateResult: "input", then the version called
    nzIn,       \* normalizeGenerateResult: the GenerateTextResult argument
    nzOut,      \* normalizeGenerateResult: the ProviderGenerateResult returned
    vfPc,       \* validator: "input", "validated", "merged"
    vfFiles,    \* validateFiles: the files argument
    vfReport,   \* validateFiles(vfFiles)
    vfPatch,    \* the patch list merged into vfFiles
    vfMerged,   \* applyFixes(vfFiles, vfPatch)
    vfAfter     \* validateFiles(vfMerged)

gateVars == <<limit, active, hist>>

fixVars == <<fxPc, fxFiles, fxFixes, fxOut, fxFilesAfter, fxTwice>>

pipeVars == <<pc, plan, buildResult, validation, verifyResult, zipArg, result, thrown,
              timings, totalUsage, trace, calls, repair, replies, onStepComplete>>

vars == <<limit, active, hist, fxPc, fxFiles, fxFixes, fxOut, fxFilesAfter,
          pc, plan, buildResult, validation, verifyResult, zipArg, result, thrown,
          timings, totalUsage, trace, calls, repair, replies, onStepComplete,
          boIn, wb, gen, gfs, ub,
          fxTwice, activeProjectBuilder, toolLog, nzPc, nzIn, nzOut,
          vfPc, vfFiles, vfReport, vfPatch, vfMerged, vfAfter>>

backoffVars == <<boIn, wb, gen, gfs, ub>>

toolVars == <<activeProjectBuilder, toolLog>>

normVars == <<nzPc, nzIn, nzOut>>

valVars == <<vfPc, vfFiles, vfReport, vfPatch, vfMerged, vfAfter>>

\* The value the variables of a component keep while another one runs.
GateIdle == limit = 0 /\ active = {} /\ hist = <<>>

FixIdle ==
    /\ fxPc = "idle"
    /\ fxFiles = <<>>
    /\ fxFixes = <<>>
    /\ fxOut = <<>>
    /\ fxFilesAfter = <<>>
    /\ fxTwice = <<>>

None == [none |-> TRUE]

\* PipelineOptions.onStepComplete as runPipeline receives it: given or left
\* out, and not invoked yet.
StepCallback(given) == [given |-> given, invoked |-> <<>>]

\* How the repair model call ended: not made, rejected with an error, or
\* resolved with a response text.
RepairEnd(kind, error, text) == [kind |-> kind, error |-> error, text |-> text]
NoRepair == RepairEnd("none", "none", None)

PipeIdle ==
    /\ pc = "idle"
    /\ plan = None
    /\ buildResult = None
    /\ validation = <<>>
    /\ verifyResult = None
    /\ zipArg = <<>>
    /\ result = None
    /\ thrown = "none"
    /\ timings = <<>>
    /\ totalUsage = None
    /\ trace = <<>>
    /\ calls = <<>>
    /\ repair = NoRepair
    /\ replies = <<>>
    /\ onStepComplete = StepCallback(FALSE)

BackoffIdle ==
    /\ boIn = None
    /\ wb = None
    /\ gen = None
    /\ gfs = None
    /\ ub = None

ToolIdle == activeProjectBuilder = None /\ toolLog = <<>>

NormIdle == nzPc = "idle" /\ nzIn = None /\ nzOut = None

ValIdle ==
    /\ vfPc = "idle"
    /\ vfFiles = <<>>
    /\ vfReport = None
    /\ vfPatch = <<>>
    /\ vfMerged = <<>>
    /\ vfAfter = None

-----------------------------------------------------------------------------
(* Bounds *)

MaxLimit == 2       \* ceilings 0..MaxLimit
MaxOps == 4         \* gate calls recorded in one history
MaxFiles == 2       \* files in the list handed to applyFixes
MaxFixes == 2       \* entries in a patch list

-----------------------------------------------------------------------------
(* CapacityGate *)

\* Job ids offered to the gate.
Ids == {"a", "b", "c"}

\* size(): this.active.size
size(act) == Cardinality(act)

\* has(id): this.active.has(id)
has(act, id) == id \in act

atCapacity_offByOne(act, lim) == size(act) > lim

\* atCapacity(): this.active.size >= this.limit
atCapacity(act, lim) == size(act) >= lim

tryEnterRet_noDuplicateCheck(act, lim, id) == ~atCapacity(act, lim)

\* tryEnter(id), the value returned:
\*   if (this.has(id) || this.atCapacity()) return false; ... return true;
tryEnterRet(act, lim, id) == ~(has(act, id) \/ atCapacity(act, lim))

tryEnterActive_evict(act, lim, id) ==
    IF has(act, id) THEN act ELSE IF atCapacity(act, lim) THEN {id} ELSE act \cup {id}

\* tryEnter(id), the active set left behind: this.active.add(id) when admitted.
tryEnterActive(act, lim, id) ==
    IF tryEnterRet(act, lim, id) THEN act \cup {id} ELSE act

exitActive_clear(act, id) == IF id \in act THEN {} ELSE act

exitActive_noop(act, id) == act

\* exit(id): this.active.delete(id)
exitActive(act, id) == act \ {id}

\* One recorded call: the operation, its argument ("-" when it has none), the
\* value it returned ("-" for exit, which returns nothing) and the active set
\* it found.
Call(op, id, ret, pre) == [op |-> op, id |-> id, ret |-> ret, pre |-> pre]

GateInit ==
    /\ limit \in 0..MaxLimit
    /\ active = {}
    /\ hist = <<>>
    /\ FixIdle
    /\ PipeIdle
    /\ BackoffIdle
    /\ ToolIdle
    /\ NormIdle
    /\ ValIdle

\* Every call runs to completion on the event loop before the next one starts
\* (no await inside the class), so concurrent tasks interleave whole calls.
tryEnter(id) ==
    /\ Len(hist) < MaxOps
    /\ active' = tryEnterActive(active, limit, id)
    /\ hist' = Append(hist, Call("tryEnter", id, tryEnterRet(active, limit, id), active))
    /\ UNCHANGED <<limit, fixVars, pipeVars, backoffVars, toolVars, normVars, valVars>>

exit(id) ==
    /\ Len(hist) < MaxOps
    /\ active' = exitActive(active, id)
    /\ hist' = Append(hist, Call("exit", id, "-", active))
    /\ UNCHANGED <<limit, fixVars, pipeVars, backoffVars, toolVars, normVars, valVars>>

hasCall(id) ==
    /\ Len(hist) < MaxOps
    /\ hist' = Append(hist, Call("has", id, has(active, id), active))
    /\ UNCHANGED <<limit, active, fixVars, pipeVars, backoffVars, toolVars, normVars, valVars>>

atCapacityCall ==
    /\ Len(hist) < MaxOps
    /\ hist' = Append(hist, Call("atCapacity", "-", atCapacity(active, limit), active))
    /\ UNCHANGED <<limit, active, fixVars, pipeVars, backoffVars, toolVars, normVars, valVars>>

sizeCall ==
    /\ Len(hist) < MaxOps
    /\ hist' = Append(hist, Call("size", "-", size(active), active))
    /\ UNCHANGED <<limit, active, fixVars, pipeVars, backoffVars, toolVars, normVars, valVars>>

GateTryEnter == \E id \in Ids : tryEnter(id)
GateExit == \E id \in Ids : exit(id)
GateHas == \E id \in Ids : hasCall(id)

GateNext ==
    \/ GateTryEnter
    \/ GateExit
    \/ GateHas
    \/ atCapacityCall
    \/ sizeCall

SpecGate == GateInit /\ [][GateNext]_vars

-----------------------------------------------------------------------------
(* Capacity gate: claims *)

\* The last call recorded, when there is one.
LastCall == hist[Len(hist)]

IsEnter(c, id, ret) == c.op = "tryEnter" /\ c.id = id /\ c.ret = ret
IsExit(c, id) == c.op = "exit" /\ c.id = id

\* The ids whose most recent successful tryEnter in h has no later exit.
GateAdmitted(h) ==
    {i \in Ids :
        \E k \in 1..Len(h) :
            /\ IsEnter(h[k], i, TRUE)
            /\ \A j \in (k + 1)..Len(h) : ~IsEnter(h[j], i, TRUE)
            /\ \A j \in (k + 1)..Len(h) : ~IsExit(h[j], i)}

\* C1: after any sequence of gate calls, in any interleaving, size() <= limit
\* and the active set is exactly the set of ids whose most recent successful
\* tryEnter has not been followed by an exit of that id; every size() call
\* made on the way returned at most the limit.
C1_GateBounded ==
    /\ size(active) <= limit
    /\ active = GateAdmitted(hist)
    /\ \A k \in 1..Len(hist) : hist[k].op = "size" => hist[k].ret <= limit

\* C1 witness: the gate is full at a positive ceiling, after one id was turned
\* away and one active id left.
C1_Witness ==
    /\ limit >= 1
    /\ size(active) = limit
    /\ \E k \in 1..Len(hist) : \E i \in Ids : IsEnter(hist[k], i, FALSE)
    /\ \E k \in 1..Len(hist) : \E i \in hist[k].pre : IsExit(hist[k], i)

\* C2: tryEnter(id) returns false and leaves the active set unchanged exactly
\* when id is already active or size() >= limit; in every other state it adds
\* id, and nothing else, and returns true.
C2_TryEnterContract ==
    (Len(hist) > 0 /\ LastCall.op = "tryEnter") =>
        LET c == LastCall
            refused == c.id \in c.pre \/ Cardinality(c.pre) >= limit
        IN  /\ c.ret \in BOOLEAN
            /\ (c.ret = FALSE) <=> refused
            /\ refused => active = c.pre
            /\ ~refused => active = c.pre \cup {c.id}

\* C2 witness: one history holds an admission, a refusal of an active id and a
\* refusal of an inactive id at capacity.
C2_Witness ==
    /\ \E k \in 1..Len(hist) : \E i \in Ids : IsEnter(hist[k], i, TRUE)
    /\ \E k \in 1..Len(hist) : \E i \in hist[k].pre : IsEnter(hist[k], i, FALSE)
    /\ Len(hist) > 0
    /\ \E i \in Ids \ LastCall.pre : IsEnter(LastCall, i, FALSE)

\* C3: (a) an id is never admitted twice without an exit of that id in
\* between; (b) an id refused only because the gate was at capacity is admitted
\* by its next tryEnter once some active id has exited and no id was admitted
\* in between.
C3_NoDoubleAdmission ==
    \A i \in Ids : \A k \in 1..Len(hist) : \A m \in (k + 1)..Len(hist) :
        (IsEnter(hist[k], i, TRUE) /\ IsEnter(hist[m], i, TRUE)) =>
            \E j \in (k + 1)..(m - 1) : IsExit(hist[j], i)

C3_AdmittedAfterExit ==
    \A i \in Ids : \A k \in 1..Len(hist) : \A m \in (k + 1)..Len(hist) :
        ( /\ IsEnter(hist[k], i, FALSE)
          /\ i \notin hist[k].pre
          /\ hist[m].op = "tryEnter" /\ hist[m].id = i
          /\ \A j \in (k + 1)..(m - 1) : ~(hist[j].op = "tryEnter" /\ hist[j].id = i)
          /\ \A j \in (k + 1)..(m - 1) : ~(hist[j].op = "tryEnter" /\ hist[j].ret = TRUE)
          /\ \E e \in (k + 1)..(m - 1) : \E x \in hist[e].pre : IsExit(hist[e], x) )
        => hist[m].ret = TRUE

C3_GateHistory == C3_NoDoubleAdmission /\ C3_AdmittedAfterExit

\* C3 witness: ceiling 1, tryEnter(a) admitted, tryEnter(b) refused, exit(a),
\* tryEnter(b) admitted.
C3_Witness ==
    /\ limit = 1
    /\ Len(hist) = 4
    /\ IsEnter(hist[1], "a", TRUE)
    /\ IsEnter(hist[2], "b", FALSE)
    /\ IsExit(hist[3], "a")
    /\ IsEnter(hist[4], "b", TRUE)
    /\ active = {"b"}

\* C4: exit(id) on an id that is not active changes nothing, a second exit(id)
\* right after exit(id) changes nothing, and exit(id) neither removes nor
\* admits any other id.
C4_ExitIdempotentLocal ==
    (Len(hist) > 0 /\ LastCall.op = "exit") =>
        LET c == LastCall IN
            /\ c.id \notin active
            /\ c.id \notin c.pre => active = c.pre
            /\ \A j \in Ids \ {c.id} : (j \in active) <=> (j \in c.pre)
            /\ (Len(hist) > 1 /\ IsExit(hist[Len(hist) - 1], c.id)) => active = c.pre

\* C4 witness: exit(id) twice in a row, the first one releasing a slot, while
\* another id stays active.
C4_Witness ==
    /\ Len(hist) > 1
    /\ \E i \in Ids :
        /\ IsExit(LastCall, i)
        /\ IsExit(hist[Len(hist) - 1], i)
        /\ i \in hist[Len(hist) - 1].pre
    /\ active # {}

\* C22: an id that was admitted and has not called exit since keeps its slot:
\* in every later state it is active, size() >= 1, at most limit - 1 other ids
\* are active, and with limit 1 every later tryEnter of another id returned
\* false.
C22_LeakedSlotNeverFreed ==
    \A i \in Ids : \A k \in 1..Len(hist) :
        (IsEnter(hist[k], i, TRUE) /\ \A j \in (k + 1)..Len(hist) : ~IsExit(hist[j], i)) =>
            /\ i \in active
            /\ size(active) >= 1
            /\ size(active \ {i}) <= limit - 1
            /\ \A j \in (k + 1)..Len(hist) :
                /\ i \in hist[j].pre
                /\ size(hist[j].pre \ {i}) <= limit - 1
                /\ hist[j].op = "size" => hist[j].ret >= 1
                /\ (limit = 1 /\ hist[j].op = "tryEnter" /\ hist[j].id # i) =>
                       hist[j].ret = FALSE

\* C22 witness: ceiling 1, "a" is admitted and never exits; the other two ids
\* are turned away, also after an exit of one of them, and "a" is still active.
C22_Witness ==
    /\ limit = 1
    /\ Len(hist) = 4
    /\ IsEnter(hist[1], "a", TRUE)
    /\ IsEnter(hist[2], "b", FALSE)
    /\ IsExit(hist[3], "b")
    /\ IsEnter(hist[4], "c", FALSE)
    /\ active = {"a"}

-----------------------------------------------------------------------------
(* Paths, and the Map the verifier merges into *)

\* A path is the sequence of its pieces: ".", "/", "\\" or a name holding none
\* of "/" and "\\" and not starting with ".", so that two paths are the same
\* string exactly when they are the same sequence.
P_index == <<"index.html">>
P_dotIndex == <<".", "/", "index.html">>
P_css == <<"styles", "/", "main.css">>
P_dotBackIndex == <<".", "\\", "index.html">>

FixPaths == {P_index, P_dotIndex, P_dotBackIndex, P_css}

\* href.replace(/^\.\//, ""): one leading "./" is dropped.
stripDotSlash(p) ==
    IF Len(p) >= 2 /\ p[1] = "." /\ p[2] = "/" THEN SubSeq(p, 3, Len(p)) ELSE p

\* s.replace(/\\/g, "/"): every backslash becomes a slash.
backslashToSlash(p) == [i \in 1..Len(p) |-> IF p[i] = "\\" THEN "/" ELSE p[i]]

normalisePath_slashFirst(p) == stripDotSlash(backslashToSlash(p))

\* normalisePath(href): href.replace(/^\.\//, "").replace(/\\/g, "/")
normalisePath(p) == backslashToSlash(stripDotSlash(p))

File(path, content) == [path |-> path, content |-> content]

\* A Map<string, string> in insertion order: a sequence of entries with
\* pairwise distinct paths.
MapHas(m, k) == \E i \in 1..Len(m) : m[i].path = k

\* Map.prototype.get for a key the map holds.
ContentOf(m, k) == m[CHOOSE i \in 1..Len(m) : m[i].path = k].content

MapSet_keepFirst(m, k, v) ==
    IF MapHas(m, k) THEN m ELSE Append(m, File(k, v))

\* Map.prototype.set: an existing key keeps its place and takes the new value,
\* a new key goes to the end.
MapSet(m, k, v) ==
    IF MapHas(m, k)
    THEN [i \in 1..Len(m) |-> IF m[i].path = k THEN File(k, v) ELSE m[i]]
    ELSE Append(m, File(k, v))

\* m after set(e.path, e.content) for every e of entries, in order: new Map(entries)
\* from the empty map, and the for-loop over fixedFiles.
RECURSIVE MapSetAll(_, _)
MapSetAll(m, entries) ==
    IF entries = <<>> THEN m
    ELSE MapSetAll(MapSet(m, Head(entries).path, Head(entries).content), Tail(entries))

applyFixes_patchOnly(files, fixedFiles) ==
    MapSetAll(<<>>, [i \in 1..Len(fixedFiles) |->
        File(normalisePath(fixedFiles[i].path), fixedFiles[i].content)])

\* applyFixes of the current verifier: the map is keyed by normalisePath of the
\* base paths, each fix is set under normalisePath(fix.path), and the entries
\* are returned as a new array.
applyFixes(files, fixedFiles) ==
    LET fileMap == MapSetAll(<<>>, [i \in 1..Len(files) |->
                       File(normalisePath(files[i].path), files[i].content)])
    IN  MapSetAll(fileMap, [i \in 1..Len(fixedFiles) |->
            File(normalisePath(fixedFiles[i].path), fixedFiles[i].content)])

\* applyFixes of the earlier verifier: the map is keyed by the base paths as
\* they are, and a fix path only has its backslashes turned.
applyFixesV1(files, fixedFiles) ==
    LET fileMap == MapSetAll(<<>>, [i \in 1..Len(files) |->
                       File(files[i].path, files[i].content)])
    IN  MapSetAll(fileMap, [i \in 1..Len(fixedFiles) |->
            File(backslashToSlash(fixedFiles[i].path), fixedFiles[i].content)])

\* Neither version writes to the files array or to its elements.
filesAfterApplyFixes(files, fixedFiles) == files

-----------------------------------------------------------------------------
(* validateFiles (current verifier) *)

\* A file's content, as far as validateFiles reads it: its length after trim(),
\* its length after hasSubstantiveContent has stripped comments and boilerplate,
\* the markers found by includes()/test(), and the attribute values the four
\* extracting patterns match (link href, script src, img src, css url()).
Content(trimLen, stripLen, marks, links, scripts, imgs, urls) ==
    [trimLen |-> trimLen, stripLen |-> stripLen, marks |-> marks,
     links |-> links, scripts |-> scripts, imgs |-> imgs, urls |-> urls]

P_readme == <<"README.md">>
P_readmeLower == <<"readme.md">>
P_js == <<"scripts", "/", "app.js">>
P_logo == <<"img", "/", "logo.png">>
U_cdnJs == <<"https://", "cdn.example", "/", "lib.js">>

\* CDN_PREFIXES, and the two extra schemes isCdnOrAbsolute tests.
CDN_PREFIXES == {"https://", "http://", "//cdn.", "//unpkg.", "//fonts.", "//cdnjs.", "//jsdelivr."}

isCdnOrAbsolute_prefixesOnly(src) == Len(src) > 0 /\ src[1] \in CDN_PREFIXES

\* isCdnOrAbsolute(src): a value is one piece per scheme or prefix, then the rest.
isCdnOrAbsolute(src) ==
    Len(src) > 0 /\ (src[1] \in CDN_PREFIXES \/ src[1] = "data:" \/ src[1] = "blob:")

startsWith(src, piece) == Len(src) > 0 /\ src[1] = piece

\* f.path.endsWith(".html") and endsWith(".css"), on the last piece of the path.
endsWithHtml(p) == Len(p) > 0 /\ p[Len(p)] \in {"index.html", "about.html"}
endsWithCss(p) == Len(p) > 0 /\ p[Len(p)] \in {"main.css"}

\* p.toLowerCase()
toLowerCase(p) == [i \in 1..Len(p) |-> IF p[i] = "README.md" THEN "readme.md" ELSE p[i]]

\* hasSubstantiveContent(content, ext): stripped.length > 10
SubstantiveMin == 10
hasSubstantiveContent(content) == content.stripLen > SubstantiveMin

\* README.md needs at least this many characters after trim().
ReadmeMin == 50

RECURSIVE Flatten(_)
Flatten(ss) == IF ss = <<>> THEN <<>> ELSE Head(ss) \o Flatten(Tail(ss))

\* The issues of a sequence of values, one optional issue per value, in order.
Issue(kind, file, ref) == <<kind, file, ref>>
NoPath == <<>>

entryIssues_noEntryCheck(pathSeq, fileMap) ==
    IF \E i \in 1..Len(pathSeq) : toLowerCase(pathSeq[i]) = P_readmeLower
    THEN <<>> ELSE <<Issue("readme-missing", NoPath, NoPath)>>

\* Checks 1 and 2: index.html, README.md.
entryIssues(pathSeq, fileMap) ==
    LET readmeIdx == {i \in 1..Len(pathSeq) : toLowerCase(pathSeq[i]) = P_readmeLower}
        first == CHOOSE i \in readmeIdx : \A j \in readmeIdx : i <= j
    IN  (IF \E i \in 1..Len(pathSeq) : pathSeq[i] = P_index
         THEN <<>> ELSE <<Issue("index-missing", NoPath, NoPath)>>)
        \o
        (IF readmeIdx = {} THEN <<Issue("readme-missing", NoPath, NoPath)>>
         ELSE IF ContentOf(fileMap, pathSeq[first]).trimLen < ReadmeMin
              THEN <<Issue("readme-short", NoPath, NoPath)>>
              ELSE <<>>)

\* Check 3: every file whose content is empty after trim().
emptyIssues(files) ==
    Flatten([i \in 1..Len(files) |->
        IF files[i].content.trimLen = 0
        THEN <<Issue("empty", files[i].path, NoPath)>> ELSE <<>>])

\* Checks 4 and 5: the five markers of an HTML file.
structureIssues(filePath, html) ==
    Flatten([k \in 1..5 |->
        LET mark == <<"doctype", "html", "head", "body", "viewport">>[k]
        IN  IF mark \in html.marks THEN <<>> ELSE <<Issue("no-" \o mark, filePath, NoPath)>>])

\* Check 6 with 9: link hrefs.
linkIssues(filePath, html, pathSet, fileMap) ==
    Flatten([k \in 1..Len(html.links) |->
        LET href == html.links[k]
            norm == normalisePath(href)
        IN  IF isCdnOrAbsolute(href) \/ startsWith(href, "#") \/ startsWith(href, "mailto:")
            THEN <<>>
            ELSE IF norm \notin pathSet
            THEN <<Issue("link-missing", filePath, href)>>
            ELSE IF endsWithCss(norm) /\ ~hasSubstantiveContent(ContentOf(fileMap, norm))
            THEN <<Issue("css-empty", filePath, href)>>
            ELSE <<>>])

\* Check 7 with 10: script srcs.
scriptIssues(filePath, html, pathSet, fileMap) ==
    Flatten([k \in 1..Len(html.scripts) |->
        LET src == html.scripts[k]
            norm == normalisePath(src)
        IN  IF isCdnOrAbsolute(src) THEN <<>>
            ELSE IF norm \notin pathSet
            THEN <<Issue("script-missing", filePath, src)>>
            ELSE IF ~hasSubstantiveContent(ContentOf(fileMap, norm))
            THEN <<Issue("js-empty", filePath, src)>>
            ELSE <<>>])

\* Check 8: img srcs.
imgIssues(filePath, html, pathSet) ==
    Flatten([k \in 1..Len(html.imgs) |->
        LET src == html.imgs[k]
        IN  IF isCdnOrAbsolute(src) THEN <<>>
            ELSE IF normalisePath(src) \notin pathSet
            THEN <<Issue("img-missing", filePath, src)>>
            ELSE <<>>])

\* alpineDirectives.test(html), for /\b(x-show|...|x-on|@click|...|@submit)\b/:
\* an x- token matches where a word starts ("x-directive"); an @ token matches
\* only where a word character stands right before the @, since \b does not
\* hold between a space or a quote and "@" ("word@directive"); an @ token in
\* attribute position ("@directive") does not match.
alpineDirectivesTest(html) ==
    "x-directive" \in html.marks \/ "word@directive" \in html.marks

\* Check 11: a matched Alpine directive needs x-data anywhere in the file.
alpineIssues(filePath, html) ==
    IF alpineDirectivesTest(html) /\ "x-data" \notin html.marks
    THEN <<Issue("no-x-data", filePath, NoPath)>> ELSE <<>>

\* Checks 4-11 for one file of the list.
htmlIssues(f, pathSet, fileMap) ==
    IF ~endsWithHtml(f.path) THEN <<>>
    ELSE LET filePath == normalisePath(f.path)
             html == f.content
         IN  structureIssues(filePath, html)
             \o linkIssues(filePath, html, pathSet, fileMap)
             \o scriptIssues(filePath, html, pathSet, fileMap)
             \o imgIssues(filePath, html, pathSet)
             \o alpineIssues(filePath, html)

\* Check 12: url() references of one stylesheet.
cssIssues(f, pathSet) ==
    IF ~endsWithCss(f.path) THEN <<>>
    ELSE Flatten([k \in 1..Len(f.content.urls) |->
        LET ref == f.content.urls[k]
        IN  IF isCdnOrAbsolute(ref) \/ startsWith(ref, "data:") \/ startsWith(ref, "#")
            THEN <<>>
            ELSE IF normalisePath(ref) \notin pathSet
            THEN <<Issue("url-missing", normalisePath(f.path), ref)>>
            ELSE <<>>])

\* validateFiles(files): the issues, in the order the checks push them.
validateIssues(files) ==
    LET fileMap == MapSetAll(<<>>, [i \in 1..Len(files) |->
                       File(normalisePath(files[i].path), files[i].content)])
        pathSeq == [i \in 1..Len(fileMap) |-> fileMap[i].path]
        pathSet == {pathSeq[i] : i \in 1..Len(pathSeq)}
    IN  entryIssues(pathSeq, fileMap)
        \o emptyIssues(files)
        \o Flatten([i \in 1..Len(files) |-> htmlIssues(files[i], pathSet, fileMap)])
        \o Flatten([i \in 1..Len(files) |-> cssIssues(files[i], pathSet)])

\* validateFiles(files): { issues, passed: issues.length === 0 }
validateFiles_passedWithEntry(files) ==
    [issues |-> validateIssues(files),
     passed |-> \E i \in 1..Len(files) : normalisePath(files[i].path) = P_index]

validateFiles(files) ==
    [issues |-> validateIssues(files), passed |-> Len(validateIssues(files)) = 0]

-----------------------------------------------------------------------------
(* Values shared by the pipeline stages *)

\* undefined, for a text or a path; an optional record (usage) is <<>> or <<r>>.
Undefined == "<undefined>"
UndefinedPath == <<"<undefined>">>
UndefinedContent == [undefined |-> TRUE]
EmptyPath == <<>>

StepUsage(p, c, t) == [promptTokens |-> p, completionTokens |-> c, totalTokens |-> t]

\* result.usage ? { promptTokens, completionTokens, totalTokens } : undefined
stepUsageOf(usage) == IF usage = <<>> THEN <<>> ELSE <<usage[1]>>

-----------------------------------------------------------------------------
(* runPlanner *)

FallbackSummary == "jobPrompt.substring(0, 120)"
DefaultSummary == "Build a web project"

\* fallbackPlan(jobPrompt)
fallbackPlan ==
    [mode |-> "code", taskSummary |-> FallbackSummary,
     files |-> <<P_index, P_css, P_js, P_readme>>, fallback |-> TRUE]

\* A planner response text: json says whether JSON.parse accepts it, and then
\* mode, files (<<>> when not an array, else <<array>>) and taskSummary are
\* the fields of the parsed object.
PlanText(json, mode, files, taskSummary) ==
    [json |-> json, mode |-> mode, files |-> files, taskSummary |-> taskSummary]

parsePlanThrows_jsonOnly(raw) == ~raw.json

\* parsePlanResponse throws: JSON.parse fails, or the mode is not code or text.
parsePlanThrows(raw) == ~raw.json \/ raw.mode \notin {"code", "text"}

Includes(paths, p) == \E i \in 1..Len(paths) : paths[i] = p

parsePlanResponse_asListed(raw) ==
    [mode |-> raw.mode,
     taskSummary |-> IF raw.taskSummary = Undefined THEN DefaultSummary ELSE raw.taskSummary,
     files |-> IF raw.files = <<>> THEN <<>> ELSE raw.files[1],
     fallback |-> FALSE]

\* parsePlanResponse(raw), when it does not throw.
parsePlanResponse(raw) ==
    LET files0 == IF raw.files = <<>> THEN <<>> ELSE raw.files[1]
        files1 == IF Includes(files0, P_index) THEN files0 ELSE <<P_index>> \o files0
        files2 == IF Includes(files0, P_css) THEN files1 ELSE Append(files1, P_css)
        files3 == IF Includes(files0, P_readme) THEN files2 ELSE Append(files2, P_readme)
    IN  [mode |-> raw.mode,
         taskSummary |-> IF raw.taskSummary = Undefined THEN DefaultSummary ELSE raw.taskSummary,
         files |-> IF raw.mode = "code" THEN files3 ELSE files0,
         fallback |-> FALSE]

\* runPlanner, once generateForStep has resolved with result: { plan, usage }.
runPlannerResult(res) ==
    [plan |-> IF parsePlanThrows(res.text) THEN fallbackPlan
              ELSE parsePlanResponse(res.text),
     usage |-> stepUsageOf(res.usage)]

-----------------------------------------------------------------------------
(* runBuilder *)

\* One tool call: create_project carries a list of files, create_file one
\* file; any other tool (finalize_project) carries none that are read.
ToolCall(name, files) == [name |-> name, files |-> files]

\* The {path, content} pairs the loop over the tool calls visits, in order.
candidateFiles(toolCalls) ==
    Flatten([i \in 1..Len(toolCalls) |->
        IF toolCalls[i].name \in {"create_project", "create_file"}
        THEN toolCalls[i].files ELSE <<>>])

\* The loop body: a pair is kept when its path is not empty, its content is
\* defined and its raw path was not seen before.
RECURSIVE keepFirstOfEachPath(_, _)
keepFirstOfEachPath(cands, files) ==
    IF cands = <<>> THEN files
    ELSE LET f == Head(cands)
             keep == /\ f.path # EmptyPath /\ f.path # UndefinedPath
                     /\ f.content # UndefinedContent
                     /\ ~MapHas(files, f.path)
         IN  keepFirstOfEachPath(Tail(cands), IF keep THEN Append(files, f) ELSE files)

\* extractFilesFromToolCalls(toolCalls)
extractFilesFromToolCalls(toolCalls) == keepFirstOfEachPath(candidateFiles(toolCalls), <<>>)

\* getFullDesignSystem(): base.css and components.css, taken to hold rules and
\* no url() reference; getFullDesignSystem(overrides) appends the overrides.
DesignSystemLen == 400
DesignSystemCss == Content(DesignSystemLen, DesignSystemLen, {}, <<>>, <<>>, <<>>, <<>>)
withDesignSystem(c) ==
    Content(DesignSystemLen + c.trimLen, DesignSystemLen + c.stripLen,
            c.marks, c.links, c.scripts, c.imgs, c.urls)

\* generateReadme(taskSummary, files): the template alone is longer than the
\* README minimum.
GeneratedReadmeLen == 200
GeneratedReadme == Content(GeneratedReadmeLen, GeneratedReadmeLen, {}, <<>>, <<>>, <<>>, <<>>)

\* The design system step: styles/main.css is added, or prefixed in place.
injectDesignSystem(files) ==
    IF Len(files) = 0 THEN files
    ELSE IF ~MapHas(files, P_css) THEN Append(files, File(P_css, DesignSystemCss))
    ELSE [i \in 1..Len(files) |->
            IF files[i].path = P_css
            THEN File(P_css, withDesignSystem(files[i].content)) ELSE files[i]]

\* The README step: added when no path is readme.md in lower case.
ensureReadme(files) ==
    IF Len(files) > 0 /\ ~\E i \in 1..Len(files) : toLowerCase(files[i].path) = P_readmeLower
    THEN Append(files, File(P_readme, GeneratedReadme))
    ELSE files

runBuilderCode_keepsEmptyText(res) ==
    [files |-> ensureReadme(injectDesignSystem(
                   IF Len(res.toolCalls) > 0
                   THEN extractFilesFromToolCalls(res.toolCalls) ELSE <<>>)),
     textResponse |-> res.text,
     usage |-> stepUsageOf(res.usage)]

\* runBuilder in code mode, once generateForStep has resolved with result.
runBuilderCode(res) ==
    [files |-> ensureReadme(injectDesignSystem(
                   IF Len(res.toolCalls) > 0
                   THEN extractFilesFromToolCalls(res.toolCalls) ELSE <<>>)),
     textResponse |-> IF res.text = "" THEN Undefined ELSE res.text,
     usage |-> stepUsageOf(res.usage)]

runBuilderText_dropsText(res) ==
    [files |-> <<>>, textResponse |-> "", usage |-> stepUsageOf(res.usage)]

\* runBuilder in text mode, once generateForStep has resolved with result.
runBuilderText(res) ==
    [files |-> <<>>, textResponse |-> res.text, usage |-> stepUsageOf(res.usage)]

-----------------------------------------------------------------------------
(* runVerifier (current verifier) *)

\* A verifier response text: json says whether JSON.parse accepts it, and then
\* status, issuesFound and fixedFiles are the fields of the parsed object.
VerifierText(json, status, issuesFound, fixedFiles) ==
    [json |-> json, status |-> status, issuesFound |-> issuesFound, fixedFiles |-> fixedFiles]

\* parseVerifierResponse(raw), when JSON.parse accepts raw.
parseVerifierResponse(raw) ==
    [status |-> IF raw.status = "fixed" THEN "fixed" ELSE "ok",
     issuesFound |-> raw.issuesFound,
     fixedFiles |-> raw.fixedFiles]

VerifyResult(files, issuesFound, llmVerifierRan, usage) ==
    [files |-> files, issuesFound |-> issuesFound,
     llmVerifierRan |-> llmVerifierRan, usage |-> usage]

\* applyFixes throws (a TypeError in normalisePath) on a fix without a path.
applyFixesThrows(fixedFiles) ==
    \E i \in 1..Len(fixedFiles) : fixedFiles[i].path = UndefinedPath

verifierSkipsModel_never(report) == FALSE

\* The gate in front of the model call: if (validation.issues.length > 0) {...}
\* else return.
verifierSkipsModel(report) == Len(report.issues) = 0

\* runVerifier when validateFiles found nothing: returned before any model call.
runVerifierSkipped(files) == VerifyResult(files, <<>>, FALSE, <<>>)

runVerifierResolved_alwaysPatch(files, issues, res) ==
    IF ~res.text.json
    THEN VerifyResult(applyFixes(files, <<>>), issues, TRUE, stepUsageOf(res.usage))
    ELSE VerifyResult(applyFixes(files, res.text.fixedFiles),
                      issues \o res.text.issuesFound, TRUE, stepUsageOf(res.usage))

\* runVerifier once generateForStep has resolved with result: the inner catch
\* (parse failure), the patch branch, the outer catch around applyFixes, and the
\* no-fix branch.
runVerifierResolved(files, issues, res) ==
    LET usage == stepUsageOf(res.usage) IN
    IF ~res.text.json THEN VerifyResult(files, issues, TRUE, usage)
    ELSE LET out == parseVerifierResponse(res.text) IN
         IF out.status = "fixed" /\ Len(out.fixedFiles) > 0
         THEN IF applyFixesThrows(out.fixedFiles)
              THEN VerifyResult(files, issues, TRUE, usage)
              ELSE VerifyResult(applyFixes(files, out.fixedFiles),
                                issues \o out.issuesFound, TRUE, usage)
         ELSE VerifyResult(files, issues, TRUE, usage)

runVerifierRejected_noFiles(files, issues) == VerifyResult(<<>>, issues, TRUE, <<>>)

\* runVerifier once generateForStep has rejected: the outer catch, with usage
\* still undefined.
runVerifierRejected(files, issues) == VerifyResult(files, issues, TRUE, <<>>)

-----------------------------------------------------------------------------
(* applyFixes as a function of its two arguments *)

BaseContents == {"base1", "base2"}
FixContents == {"fix1", "fix2"}

SeqsUpTo(S, lo, hi) == UNION {[1..n -> S] : n \in lo..hi}

DistinctPaths(fs) == \A i, j \in 1..Len(fs) : fs[i].path = fs[j].path => i = j

\* The lists runVerifier can hand over: the builder's files, whose raw paths
\* are pairwise distinct (extractFilesFromToolCalls keeps the first of each raw
\* path) but as the model wrote them, and a patch list of at least one entry
\* (runVerifier applies fixes only when fixedFiles.length > 0).
FixInit ==
    /\ fxPc = "input"
    /\ fxFiles \in {fs \in SeqsUpTo([path : FixPaths, content : BaseContents], 0, MaxFiles) :
                        DistinctPaths(fs)}
    /\ fxFixes \in SeqsUpTo([path : FixPaths, content : FixContents], 1, MaxFixes)
    /\ fxOut = <<>>
    /\ fxFilesAfter = fxFiles
    /\ fxTwice = <<>>
    /\ GateIdle
    /\ PipeIdle
    /\ BackoffIdle
    /\ ToolIdle
    /\ NormIdle
    /\ ValIdle

ApplyFixes ==
    /\ fxPc = "input"
    /\ fxPc' = "applied"
    /\ fxOut' = applyFixes(fxFiles, fxFixes)
    /\ fxFilesAfter' = filesAfterApplyFixes(fxFiles, fxFixes)
    /\ UNCHANGED <<fxFiles, fxFixes, fxTwice, gateVars, pipeVars, backoffVars, toolVars, normVars, valVars>>

ApplyFixesV1 ==
    /\ fxPc = "input"
    /\ fxPc' = "appliedV1"
    /\ fxOut' = applyFixesV1(fxFiles, fxFixes)
    /\ fxFilesAfter' = filesAfterApplyFixes(fxFiles, fxFixes)
    /\ UNCHANGED <<fxFiles, fxFixes, fxTwice, gateVars, pipeVars, backoffVars, toolVars, normVars, valVars>>

\* The list applyFixes returned is patched with the same fixedFiles again.
ApplyFixesAgain ==
    /\ fxPc = "applied"
    /\ fxPc' = "appliedTwice"
    /\ fxTwice' = applyFixes(fxOut, fxFixes)
    /\ UNCHANGED <<fxFiles, fxFixes, fxOut, fxFilesAfter, gateVars, pipeVars, backoffVars,
                   toolVars, normVars, valVars>>

ApplyFixesAgainV1 ==
    /\ fxPc = "appliedV1"
    /\ fxPc' = "appliedTwiceV1"
    /\ fxTwice' = applyFixesV1(fxOut, fxFixes)
    /\ UNCHANGED <<fxFiles, fxFixes, fxOut, fxFilesAfter, gateVars, pipeVars, backoffVars,
                   toolVars, normVars, valVars>>

FixNext == ApplyFixes \/ ApplyFixesV1 \/ ApplyFixesAgain \/ ApplyFixesAgainV1

SpecFix == FixInit /\ [][FixNext]_vars

-----------------------------------------------------------------------------
(* applyFixes: claims *)

Keys(m) == {m[i].path : i \in 1..Len(m)}

\* The content found under key k in a list with pairwise distinct paths.
ContentAt(m, k) == m[CHOOSE i \in 1..Len(m) : m[i].path = k].content

\* The content of the last entry of es whose path is k.
LastContent(es, k) ==
    LET last == CHOOSE i \in 1..Len(es) :
                    /\ es[i].path = k
                    /\ \A j \in (i + 1)..Len(es) : es[j].path # k
    IN  es[last].content

\* A list with every path replaced by what the version makes of it.
NormAll(fs) == [i \in 1..Len(fs) |-> File(normalisePath(fs[i].path), fs[i].content)]
BackAll(fs) == [i \in 1..Len(fs) |-> File(backslashToSlash(fs[i].path), fs[i].content)]

C10_AsStatedV1 ==
    fxPc = "appliedV1" =>
        /\ Keys(fxOut) = Keys(fxFiles) \cup Keys(BackAll(fxFixes))
        /\ \A i \in 1..Len(fxFiles) :
              fxFiles[i].path \notin Keys(BackAll(fxFixes)) =>
                  /\ MapHas(fxOut, fxFiles[i].path)
                  /\ ContentAt(fxOut, fxFiles[i].path) = fxFiles[i].content
        /\ \A k \in Keys(BackAll(fxFixes)) :
              MapHas(fxOut, k) /\ ContentAt(fxOut, k) = LastContent(BackAll(fxFixes), k)
        /\ Keys(fxFiles) \subseteq Keys(fxOut)
        /\ fxFilesAfter = fxFiles

\* out is the last-write-wins merge of the lists base and fixes (paths already
\* in the form the version keys them by): distinct keys, the keys of both, each
\* key with the last fix for it, or else the last base entry for it.
MergedLastWins(out, base, fixes) ==
    /\ DistinctPaths(out)
    /\ Keys(out) = Keys(base) \cup Keys(fixes)
    /\ \A k \in Keys(out) :
          ContentAt(out, k) =
              IF k \in Keys(fixes) THEN LastContent(fixes, k) ELSE LastContent(base, k)

Entries(m) == {m[i] : i \in 1..Len(m)}

\* C27: applying the same patch list a second time, to the list the first
\* application returned, yields the same set: same keys, same contents.
C27_Idempotent ==
    fxPc \in {"appliedTwice", "appliedTwiceV1"} => Entries(fxTwice) = Entries(fxOut)

\* What holds of C27: the earlier applyFixes is idempotent, and so is the
\* current one whenever normalisePath leaves every key of the first result
\* as it is.
C27_IdempotentOnNormalKeys ==
    /\ fxPc = "appliedTwiceV1" => fxTwice = fxOut
    /\ (fxPc = "appliedTwice" /\ \A k \in Keys(fxOut) : normalisePath(k) = k) =>
           fxTwice = fxOut

-----------------------------------------------------------------------------
(* runPipeline *)

\* What the providers can answer.  Every generateForStep call goes straight to
\* provider.generate (no retry loop on this path), which resolves with a result
\* or rejects with an error: "fatal" (authentication, bad request) or
\* "retryable" (tool argument / JSON parsing errors).
LLMErrors == {"fatal", "retryable"}

UsageValues == {<<>>, <<StepUsage(10, 5, 15)>>}

LLMResult(text, toolCalls, usage) == [text |-> text, toolCalls |-> toolCalls, usage |-> usage]

PT_code == PlanText(TRUE, "code", << <<P_index, P_js>> >>, "summary")
PT_codeNoFiles == PlanText(TRUE, "code", <<>>, Undefined)
PT_codeNoEntry == PlanText(TRUE, "code", << <<P_js>> >>, "summary")
PT_text == PlanText(TRUE, "text", << <<>> >>, "summary")
PT_textWithFiles == PlanText(TRUE, "text", << <<P_readme>> >>, "summary")
PT_badMode == PlanText(TRUE, "app", << <<P_index>> >>, "summary")
PT_noMode == PlanText(TRUE, Undefined, <<>>, Undefined)
PT_garbage == PlanText(FALSE, Undefined, <<>>, Undefined)

PlannerTexts ==
    {PT_code, PT_codeNoFiles, PT_codeNoEntry, PT_text, PT_textWithFiles, PT_badMode, PT_noMode,
     PT_garbage}

AllMarks == {"doctype", "html", "head", "body", "viewport"}
HtmlValid == Content(300, 300, AllMarks, <<P_css>>, <<U_cdnJs>>, <<>>, <<>>)
HtmlScript == Content(300, 300, AllMarks, <<P_css>>, <<P_js>>, <<>>, <<>>)
HtmlNoViewport == Content(300, 300, AllMarks \ {"viewport"}, <<>>, <<>>, <<>>, <<>>)
ReadmeLong == Content(120, 120, {}, <<>>, <<>>, <<>>, <<>>)
ReadmeShort == Content(6, 6, {}, <<>>, <<>>, <<>>, <<>>)
JsGood == Content(80, 80, {}, <<>>, <<>>, <<>>, <<>>)

TC_none == <<>>
TC_valid ==
    <<ToolCall("create_project", <<File(P_index, HtmlValid), File(P_readme, ReadmeLong)>>)>>
TC_emptyProject == <<ToolCall("create_project", <<>>)>>
TC_brokenScript == <<ToolCall("create_project", <<File(P_index, HtmlScript)>>)>>
TC_dotSlash ==
    <<ToolCall("create_file", <<File(P_dotIndex, HtmlValid)>>),
      ToolCall("create_file", <<File(P_readme, ReadmeShort)>>),
      ToolCall("finalize_project", <<>>)>>
TC_duplicate ==
    <<ToolCall("create_file", <<File(P_index, HtmlNoViewport)>>),
      ToolCall("create_file", <<File(P_index, HtmlValid)>>)>>
TC_unusable ==
    <<ToolCall("create_project", <<File(P_index, UndefinedContent), File(EmptyPath, HtmlValid)>>)>>

TC_sameFileTwoSpellings ==
    <<ToolCall("create_file", <<File(P_index, HtmlNoViewport)>>),
      ToolCall("create_file", <<File(P_dotIndex, HtmlValid)>>)>>

BuilderToolCalls ==
    {TC_none, TC_valid, TC_emptyProject, TC_brokenScript, TC_dotSlash, TC_duplicate, TC_unusable,
     TC_sameFileTwoSpellings}

BuilderTexts == {"", "Here is your project."}

LlmIssue == Issue("llm", NoPath, NoPath)
VT_garbage == VerifierText(FALSE, Undefined, <<>>, <<>>)
VT_ok == VerifierText(TRUE, "ok", <<>>, <<>>)
VT_okWithFiles == VerifierText(TRUE, "ok", <<LlmIssue>>, <<File(P_js, JsGood)>>)
VT_fixedNoFiles == VerifierText(TRUE, "fixed", <<LlmIssue>>, <<>>)
VT_fixIndex ==
    VerifierText(TRUE, "fixed", <<LlmIssue>>,
                 <<File(P_index, HtmlValid), File(P_readme, ReadmeLong)>>)
VT_addJs == VerifierText(TRUE, "fixed", <<>>, <<File(P_js, JsGood)>>)
VT_malformedFix == VerifierText(TRUE, "fixed", <<>>, <<File(UndefinedPath, JsGood)>>)

VerifierTexts ==
    {VT_garbage, VT_ok, VT_okWithFiles, VT_fixedNoFiles, VT_fixIndex, VT_addJs, VT_malformedFix}

ZeroUsage == StepUsage(0, 0, 0)

addUsage_overwrite(a, b) == IF b = <<>> THEN a ELSE b[1]

\* addUsage(a, b)
addUsage(a, b) ==
    IF b = <<>> THEN a
    ELSE StepUsage(a.promptTokens + b[1].promptTokens,
                   a.completionTokens + b[1].completionTokens,
                   a.totalTokens + b[1].totalTokens)

\* A textResponse: a text taken as it is, one of the two fixed messages, or the
\* submission message buildSubmissionMessage makes of the summary and the issues.
Text(kind, text, summary, corrected) ==
    [kind |-> kind, text |-> text, summary |-> summary, corrected |-> corrected]
RawText(t) == Text("raw", t, "", <<>>)
UnableMessage == Text("unable", "I was unable to generate the project files. Please try again.", "", <<>>)
NotPackagedMessage ==
    Text("notPackaged", "The project was built but could not be packaged. Please try again.", "", <<>>)

\* buildSubmissionMessage(taskSummary, files, issuesFixed)
buildSubmissionMessage(taskSummary, issuesFixed) ==
    Text("submission", "", taskSummary, issuesFixed)

PipelineResult_withoutFiles(mode, textResponse, zipPath, files, projectDir, issuesFixed, tms, usage) ==
    [mode |-> mode, textResponse |-> textResponse, zipPath |-> zipPath, files |-> <<>>,
     projectDir |-> projectDir, issuesFixed |-> issuesFixed, timings |-> tms,
     totalUsage |-> usage]

\* The object a return statement of runPipeline builds; a property it leaves
\* out is Undefined (<<>> for files and issuesFixed).
PipelineResult(mode, textResponse, zipPath, files, projectDir, issuesFixed, tms, usage) ==
    [mode |-> mode, textResponse |-> textResponse, zipPath |-> zipPath, files |-> files,
     projectDir |-> projectDir, issuesFixed |-> issuesFixed, timings |-> tms,
     totalUsage |-> usage]

GenerateCall(step, tools) == [step |-> step, tools |-> tools]

\* What a generateForStep call resolved with: result.text.
Reply(step, text, usage) == [step |-> step, text |-> text, usage |-> usage]

PipeInit ==
    /\ pc = "start"
    /\ plan = None
    /\ buildResult = None
    /\ validation = <<>>
    /\ verifyResult = None
    /\ zipArg = <<>>
    /\ result = None
    /\ thrown = "none"
    /\ timings = <<>>
    /\ totalUsage = ZeroUsage
    /\ trace = <<>>
    /\ calls = <<>>
    /\ repair = NoRepair
    /\ replies = <<>>
    /\ \E given \in BOOLEAN : onStepComplete = StepCallback(given)
    /\ GateIdle
    /\ FixIdle
    /\ BackoffIdle
    /\ ToolIdle
    /\ NormIdle
    /\ ValIdle

\* runPipeline is called: it runs to the await of the planner's model call.
PipelineStart ==
    /\ pc = "start"
    /\ pc' = "planner"
    /\ trace' = Append(trace, <<"planner", "start">>)
    /\ calls' = Append(calls, GenerateCall("planner", FALSE))
    /\ UNCHANGED <<plan, buildResult, validation, verifyResult, zipArg, result, thrown,
                   timings, totalUsage, repair, replies, onStepComplete,
                   gateVars, fixVars, backoffVars, toolVars, normVars, valVars>>

\* The planner's model call rejects: runPlanner has no catch and neither has
\* runPipeline, so runPipeline rejects with the error.
PlannerRejects ==
    /\ pc = "planner"
    /\ \E e \in LLMErrors : thrown' = e
    /\ pc' = "raised"
    /\ UNCHANGED <<plan, buildResult, validation, verifyResult, zipArg, result,
                   timings, totalUsage, trace, calls, repair, replies, onStepComplete,
                   gateVars, fixVars, backoffVars, toolVars, normVars, valVars>>

\* The planner's model call resolves: the plan is parsed (or the fallback plan
\* taken), timing and usage are recorded, and runBuilder runs to the await of
\* its model call, in text or in code configuration.
PlannerResolves ==
    /\ pc = "planner"
    /\ \E text \in PlannerTexts, usage \in UsageValues :
        LET plannerResult == runPlannerResult(LLMResult(text, <<>>, usage)) IN
        /\ plan' = plannerResult.plan
        /\ replies' = Append(replies, Reply("planner", text, usage))
        /\ totalUsage' = addUsage(totalUsage, plannerResult.usage)
        /\ calls' = Append(calls,
               IF plannerResult.plan.mode = "text"
               THEN GenerateCall("textResponse", FALSE) ELSE GenerateCall("builder", TRUE))
    /\ timings' = Append(timings, "planner")
    /\ trace' = trace \o <<<<"planner", "end">>, <<"builder", "start">>>>
    /\ pc' = "builder"
    /\ UNCHANGED <<buildResult, validation, verifyResult, zipArg, result, thrown,
                   repair, onStepComplete,
                   gateVars, fixVars, backoffVars, toolVars, normVars, valVars>>

\* The builder's model call rejects: no catch on the way up.
BuilderRejects ==
    /\ pc = "builder"
    /\ \E e \in LLMErrors : thrown' = e
    /\ pc' = "raised"
    /\ UNCHANGED <<plan, buildResult, validation, verifyResult, zipArg, result,
                   timings, totalUsage, trace, calls, repair, replies, onStepComplete,
                   gateVars, fixVars, backoffVars, toolVars, normVars, valVars>>

\* Text mode: the builder's text is the result.
BuilderResolvesText ==
    /\ pc = "builder"
    /\ plan.mode = "text"
    /\ \E text \in BuilderTexts, usage \in UsageValues :
        LET br == runBuilderText(LLMResult(text, <<>>, usage)) IN
        /\ buildResult' = br
        /\ replies' = Append(replies, Reply("textResponse", text, usage))
        /\ totalUsage' = addUsage(totalUsage, br.usage)
        /\ result' = PipelineResult("text", RawText(br.textResponse), Undefined, <<>>,
                                    Undefined, <<>>, Append(timings, "builder"),
                                    addUsage(totalUsage, br.usage))
    /\ timings' = Append(timings, "builder")
    /\ trace' = Append(trace, <<"builder", "end">>)
    /\ pc' = "returned"
    /\ UNCHANGED <<plan, validation, verifyResult, zipArg, thrown, calls, repair, onStepComplete,
                   gateVars, fixVars, backoffVars, toolVars, normVars, valVars>>

\* Code mode, no file extracted: the text fallback is the result.
BuilderResolvesEmpty ==
    /\ pc = "builder"
    /\ plan.mode # "text"
    /\ \E tcs \in BuilderToolCalls, text \in BuilderTexts, usage \in UsageValues :
        LET br == runBuilderCode(LLMResult(text, tcs, usage)) IN
        /\ Len(br.files) = 0
        /\ buildResult' = br
        /\ replies' = Append(replies, Reply("builder", text, usage))
        /\ totalUsage' = addUsage(totalUsage, br.usage)
        /\ result' = PipelineResult("text",
                        IF br.textResponse = Undefined THEN UnableMessage
                        ELSE RawText(br.textResponse),
                        Undefined, <<>>, Undefined, <<>>, Append(timings, "builder"),
                        addUsage(totalUsage, br.usage))
    /\ timings' = Append(timings, "builder")
    /\ trace' = Append(trace, <<"builder", "end">>)
    /\ pc' = "returned"
    /\ UNCHANGED <<plan, validation, verifyResult, zipArg, thrown, calls, repair, onStepComplete,
                   gateVars, fixVars, backoffVars, toolVars, normVars, valVars>>

filesToPackage_built(br, vr) == br.files

\* The list runPipeline hands to buildProject: buildProject(verifyResult.files, ...).
filesToPackage(br, vr) == vr.files

\* Code mode, files built and validateFiles finds nothing: runVerifier returns
\* without a model call and buildProject is called with its files.
BuilderResolvesValid ==
    /\ pc = "builder"
    /\ plan.mode # "text"
    /\ \E tcs \in BuilderToolCalls, text \in BuilderTexts, usage \in UsageValues :
        LET br == runBuilderCode(LLMResult(text, tcs, usage))
            report == validateFiles(br.files)
            vr == runVerifierSkipped(br.files)
        IN  /\ Len(br.files) > 0
            /\ verifierSkipsModel(report)
            /\ buildResult' = br
            /\ replies' = Append(replies, Reply("builder", text, usage))
            /\ validation' = report.issues
            /\ verifyResult' = vr
            /\ totalUsage' = addUsage(addUsage(totalUsage, br.usage), vr.usage)
            /\ zipArg' = filesToPackage(br, vr)
    /\ timings' = timings \o <<"builder", "verifier">>
    /\ trace' = trace \o <<<<"builder", "end">>, <<"validate", "start">>, <<"validate", "end">>, <<"zip", "start">>>>
    /\ pc' = "zip"
    /\ UNCHANGED <<plan, result, thrown, calls, repair, onStepComplete,
                   gateVars, fixVars, backoffVars, toolVars, normVars, valVars>>

\* Code mode, files built and validateFiles finds issues: runVerifier runs to
\* the await of the repair model call.
BuilderResolvesIssues ==
    /\ pc = "builder"
    /\ plan.mode # "text"
    /\ \E tcs \in BuilderToolCalls, text \in BuilderTexts, usage \in UsageValues :
        LET br == runBuilderCode(LLMResult(text, tcs, usage))
            report == validateFiles(br.files)
        IN  /\ Len(br.files) > 0
            /\ ~verifierSkipsModel(report)
            /\ buildResult' = br
            /\ replies' = Append(replies, Reply("builder", text, usage))
            /\ validation' = report.issues
            /\ totalUsage' = addUsage(totalUsage, br.usage)
    /\ timings' = Append(timings, "builder")
    /\ trace' = trace \o <<<<"builder", "end">>, <<"validate", "start">>, <<"validate", "end">>, <<"repair", "start">>>>
    /\ calls' = Append(calls, GenerateCall("verifier", FALSE))
    /\ pc' = "verifier"
    /\ UNCHANGED <<plan, verifyResult, zipArg, result, thrown, repair, onStepComplete,
                   gateVars, fixVars, backoffVars, toolVars, normVars, valVars>>

AfterVerifier_revalidate(vr) ==
    /\ verifyResult' = vr
    /\ totalUsage' = addUsage(totalUsage, vr.usage)
    /\ timings' = Append(timings, "verifier")
    /\ zipArg' = filesToPackage(buildResult, vr)
    /\ trace' = trace \o <<<<"repair", "end">>, <<"validate", "start">>,
                           <<"validate", "end">>, <<"zip", "start">>>>
    /\ pc' = "zip"
    /\ UNCHANGED <<plan, buildResult, validation, result, thrown, calls, onStepComplete,
                   gateVars, fixVars, backoffVars, toolVars, normVars, valVars>>

\* What runPipeline does with verifyResult: timing, usage, then buildProject.
AfterVerifier(vr) ==
    /\ verifyResult' = vr
    /\ totalUsage' = addUsage(totalUsage, vr.usage)
    /\ timings' = Append(timings, "verifier")
    /\ zipArg' = filesToPackage(buildResult, vr)
    /\ trace' = trace \o <<<<"repair", "end">>, <<"zip", "start">>>>
    /\ pc' = "zip"
    /\ UNCHANGED <<plan, buildResult, validation, result, thrown, calls, onStepComplete,
                   gateVars, fixVars, backoffVars, toolVars, normVars, valVars>>

\* The repair model call rejects: caught inside runVerifier.
VerifierRejects ==
    /\ pc = "verifier"
    /\ \E e \in LLMErrors : repair' = RepairEnd("rejected", e, None)
    /\ AfterVerifier(runVerifierRejected(buildResult.files, validation))
    /\ UNCHANGED replies

\* The repair model call resolves.
VerifierResolves ==
    /\ pc = "verifier"
    /\ \E text \in VerifierTexts, usage \in UsageValues :
        /\ repair' = RepairEnd("resolved", "none", text)
        /\ replies' = Append(replies, Reply("verifier", text, usage))
        /\ AfterVerifier(runVerifierResolved(buildResult.files, validation,
                                             LLMResult(text, <<>>, usage)))

\* buildProject reports failure: the could-not-package text is the result.
ZipFails ==
    /\ pc = "zip"
    /\ result' = PipelineResult("text", NotPackagedMessage, Undefined, <<>>, Undefined, <<>>,
                                Append(timings, "zip"), totalUsage)
    /\ timings' = Append(timings, "zip")
    /\ trace' = Append(trace, <<"zip", "end">>)
    /\ pc' = "returned"
    /\ UNCHANGED <<plan, buildResult, validation, verifyResult, zipArg, thrown,
                   totalUsage, calls, repair, replies, onStepComplete,
                   gateVars, fixVars, backoffVars, toolVars, normVars, valVars>>

\* buildProject reports success: the code result.
ZipSucceeds ==
    /\ pc = "zip"
    /\ result' = PipelineResult("code",
                    buildSubmissionMessage(plan.taskSummary, verifyResult.issuesFound),
                    "zipPath", <<verifyResult.files>>, "projectDir",
                    IF Len(verifyResult.issuesFound) > 0
                    THEN <<verifyResult.issuesFound>> ELSE <<>>,
                    Append(timings, "zip"), totalUsage)
    /\ timings' = Append(timings, "zip")
    /\ trace' = Append(trace, <<"zip", "end">>)
    /\ pc' = "returned"
    /\ UNCHANGED <<plan, buildResult, validation, verifyResult, zipArg, thrown,
                   totalUsage, calls, repair, replies, onStepComplete,
                   gateVars, fixVars, backoffVars, toolVars, normVars, valVars>>

PipeNext ==
    \/ PipelineStart
    \/ PlannerRejects
    \/ PlannerResolves
    \/ BuilderRejects
    \/ BuilderResolvesText
    \/ BuilderResolvesEmpty
    \/ BuilderResolvesValid
    \/ BuilderResolvesIssues
    \/ VerifierRejects
    \/ VerifierResolves
    \/ ZipFails
    \/ ZipSucceeds

SpecPipeline == PipeInit /\ [][PipeNext]_vars

-----------------------------------------------------------------------------
(* runPipeline: claims *)

Stages == <<"planner", "builder", "validate", "repair", "zip">>
StageRank(st) == CHOOSE k \in 1..Len(Stages) : Stages[k] = st

\* The number of generateForStep calls made for a step.
CallsFor(step) == Cardinality({i \in 1..Len(calls) : calls[i].step = step})

\* The number of times a stage was started.
Starts(st) == Cardinality({i \in 1..Len(trace) : trace[i] = <<st, "start">>})

\* C5: runPipeline never raises: whatever the stages' model calls do, a fatal
\* error of the Plan, Build or Repair call included, it ends with a
\* PipelineResult and never with a rejection.
C5_NeverRaises == pc # "raised"

\* C6: the stages of one run are strictly sequential, in the order Plan, Build,
\* Validate, Repair, Package: the trace is start, end, start, end, ... of one
\* stage after the other, every stage ends before the next starts, and the
\* stages started come in strictly increasing order (none twice, none early).
C6_StagesSequential ==
    /\ \A i \in 1..Len(trace) :
          /\ (i % 2 = 1) => trace[i][2] = "start"
          /\ (i % 2 = 0) => trace[i] = <<trace[i - 1][1], "end">>
    /\ \A i, j \in 1..Len(trace) :
          (i < j /\ trace[i][2] = "start" /\ trace[j][2] = "start") =>
              StageRank(trace[i][1]) < StageRank(trace[j][1])
    /\ Len(trace) > 0 => trace[1][1] = "planner"
    /\ Starts("validate") > 0 => Starts("builder") > 0
    /\ Starts("repair") > 0 => Starts("validate") > 0
    /\ Starts("zip") > 0 => Starts("validate") > 0

\* C6 witness: a run that went through all five stages has returned.
C6_Witness ==
    /\ pc = "returned"
    /\ trace = <<<<"planner", "start">>, <<"planner", "end">>,
                 <<"builder", "start">>, <<"builder", "end">>,
                 <<"validate", "start">>, <<"validate", "end">>,
                 <<"repair", "start">>, <<"repair", "end">>,
                 <<"zip", "start">>, <<"zip", "end">>>>

\* C7: the repair model is called at most once in a run, validation is not run
\* again after the repair, and the list handed to packaging is the list the
\* verifier returned, as it is.
C7_RepairOnce ==
    /\ CallsFor("verifier") <= 1
    /\ Starts("repair") <= 1
    /\ Starts("validate") <= 1
    /\ \A i, j \in 1..Len(trace) :
          (trace[i] = <<"repair", "end">> /\ i < j) => trace[j][1] = "zip"
    /\ Starts("zip") > 0 => zipArg = verifyResult.files

\* C7 witness: the repair call returned a patch, the patched list differs from
\* the built one and was packaged.
C7_Witness ==
    /\ pc = "returned"
    /\ CallsFor("verifier") = 1
    /\ Starts("zip") = 1
    /\ verifyResult.files # buildResult.files
    /\ zipArg = verifyResult.files

\* C8: the repair model is called if and only if validateFiles reports an
\* issue for the built files: with no issue there is no call, the files come
\* back unchanged with an empty issue list and llmVerifierRan = false; with
\* one or more issues there is exactly one call.
C8_RepairIffIssues ==
    LET built == buildResult # None /\ Len(buildResult.files) > 0
        passed == validateFiles(buildResult.files).passed
    IN  /\ ~built => CallsFor("verifier") = 0
        /\ (built /\ passed) =>
              /\ CallsFor("verifier") = 0
              /\ verifyResult = VerifyResult(buildResult.files, <<>>, FALSE, <<>>)
        /\ (built /\ ~passed) =>
              /\ CallsFor("verifier") = 1
              /\ verifyResult # None => verifyResult.llmVerifierRan

\* C8 witness: one run skipped the repair call on a clean build.
C8_Witness ==
    /\ pc = "returned"
    /\ result.mode = "code"
    /\ validateFiles(buildResult.files).passed
    /\ ~verifyResult.llmVerifierRan

\* The repair call failed: it rejected, or its text is not JSON.
RepairFailed ==
    \/ repair.kind = "rejected"
    \/ repair.kind = "resolved" /\ ~repair.text.json

\* C9: when the repair call throws or its response cannot be parsed,
\* runVerifier returns the pre-repair files with the validator's issue list,
\* and the pipeline goes on to packaging.
C9_RepairFailureKeepsFiles ==
    RepairFailed =>
        /\ verifyResult.files = buildResult.files
        /\ verifyResult.issuesFound = validateFiles(buildResult.files).issues
        /\ verifyResult.issuesFound # <<>>
        /\ verifyResult.llmVerifierRan
        /\ pc \in {"zip", "returned"}
        /\ Starts("zip") = 1
        /\ zipArg = buildResult.files

\* C9 witness: the repair call rejected with a fatal error and the run still
\* returned a packaged result.
C9_Witness ==
    /\ repair.kind = "rejected"
    /\ repair.error = "fatal"
    /\ pc = "returned"
    /\ result.mode = "code"

\* C9 second witness: the response was not JSON and the run went on to packaging.
C9_WitnessUnparseable ==
    /\ repair.kind = "resolved"
    /\ ~repair.text.json
    /\ pc = "zip"

\* The text the (only) resolved call of a step came back with.
HasReply(step) == \E i \in 1..Len(replies) : replies[i].step = step
ReplyText(step) == replies[CHOOSE i \in 1..Len(replies) : replies[i].step = step].text

\* C11: with a text plan, runPipeline makes exactly one build call, in the
\* text-only configuration (step textResponse, no tools), never starts
\* validation, repair or packaging, and returns mode text with the text that
\* call came back with.
C11_TextModeFastPath ==
    (plan # None /\ plan.mode = "text") =>
        /\ CallsFor("textResponse") = 1
        /\ CallsFor("builder") = 0
        /\ CallsFor("verifier") = 0
        /\ \A i \in 1..Len(calls) : calls[i].step = "textResponse" => ~calls[i].tools
        /\ Starts("builder") = 1
        /\ Starts("validate") = 0 /\ Starts("repair") = 0 /\ Starts("zip") = 0
        /\ pc \in {"builder", "returned", "raised"}
        /\ pc = "returned" =>
              /\ result.mode = "text"
              /\ result.textResponse = Text("raw", ReplyText("textResponse"), "", <<>>)
              /\ result.zipPath = Undefined
              /\ result.files = <<>>

\* C11 witness: a text plan's run returned the text of its one build call.
C11_Witness ==
    /\ pc = "returned"
    /\ plan.mode = "text"
    /\ HasReply("textResponse")
    /\ result.textResponse.text = "Here is your project."

\* C12: when the build stage of a code plan extracts no file, runPipeline
\* starts neither validation, repair nor packaging and returns mode text with
\* the build call's raw text if that is non-empty, else the generic message.
C12_EmptyBuildFallsBackToText ==
    (pc = "returned" /\ plan.mode # "text" /\ Len(buildResult.files) = 0) =>
        /\ Starts("validate") = 0 /\ Starts("repair") = 0 /\ Starts("zip") = 0
        /\ CallsFor("verifier") = 0
        /\ CallsFor("builder") = 1
        /\ result.mode = "text"
        /\ result.files = <<>>
        /\ result.textResponse =
              IF ReplyText("builder") # ""
              THEN Text("raw", ReplyText("builder"), "", <<>>)
              ELSE Text("unable",
                        "I was unable to generate the project files. Please try again.",
                        "", <<>>)

\* C12 witness: an empty build with an empty text returned the generic message.
C12_Witness ==
    /\ pc = "returned"
    /\ plan.mode = "code"
    /\ Len(buildResult.files) = 0
    /\ ReplyText("builder") = ""
    /\ result.textResponse.kind = "unable"

\* C12 second witness: an empty build returned the build call's raw text.
C12_WitnessRawText ==
    /\ pc = "returned"
    /\ plan.mode = "code"
    /\ Len(buildResult.files) = 0
    /\ result.textResponse = Text("raw", "Here is your project.", "", <<>>)

\* The run ended with the could-not-package message.
PackagingFailed == pc = "returned" /\ result.textResponse.kind = "notPackaged"

\* C13: when packaging fails, runPipeline does not go back to build or
\* validation, does not raise, and returns the could-not-deliver message
\* together with the final artifact set.
C13_PackagingFailureKeepsArtifacts ==
    PackagingFailed =>
        /\ Starts("builder") = 1 /\ Starts("validate") = 1 /\ Starts("zip") = 1
        /\ trace[Len(trace)] = <<"zip", "end">>
        /\ result.mode = "text"
        /\ result.files = <<verifyResult.files>>

\* What the code does on a packaging failure: the message, and nothing else.
C13_PackagingFailureDropsArtifacts ==
    PackagingFailed =>
        /\ Starts("builder") = 1 /\ Starts("validate") = 1 /\ Starts("zip") = 1
        /\ trace[Len(trace)] = <<"zip", "end">>
        /\ result.mode = "text"
        /\ result.files = <<>>
        /\ result.zipPath = Undefined
        /\ result.projectDir = Undefined
        /\ Len(verifyResult.files) > 0

\* The planner's response cannot be used: JSON.parse rejects it, or its mode is
\* neither code nor text.
PlanUnusable(text) == ~text.json \/ text.mode \notin {"code", "text"}

\* C14: when the planner's response is unparseable or has an invalid mode, the
\* planner is not called again and the run does not stop there: the plan is
\* the fallback plan (code mode, the four fixed files, the summary cut from the
\* task text), the build call is made with tools for that plan, and a result
\* that comes back carries the fallback's summary.  A run that raises after
\* that raises from the build call, not from the plan stage.
C14_FallbackPlan ==
    (HasReply("planner") /\ PlanUnusable(ReplyText("planner"))) =>
        /\ plan = [mode |-> "code", taskSummary |-> FallbackSummary,
                   files |-> <<P_index, P_css, P_js, P_readme>>, fallback |-> TRUE]
        /\ CallsFor("planner") = 1
        /\ Len(calls) >= 2 /\ calls[2] = GenerateCall("builder", TRUE)
        /\ Starts("planner") = 1 /\ Starts("builder") = 1
        /\ pc = "raised" => ~HasReply("builder")
        /\ (pc = "returned" /\ result.mode = "code") =>
              result.textResponse.summary = FallbackSummary

\* C14 witness: a run whose planner answered with text that is not JSON
\* returned a packaged code result built from the fallback plan.
C14_Witness ==
    /\ HasReply("planner")
    /\ ~ReplyText("planner").json
    /\ pc = "returned"
    /\ result.mode = "code"
    /\ plan.fallback

\* C14 second witness: the same for a parsed response with an invalid mode.
C14_WitnessInvalidMode ==
    /\ HasReply("planner")
    /\ ReplyText("planner").json
    /\ ReplyText("planner").mode = "app"
    /\ pc = "returned"
    /\ plan.fallback

\* The files a planner response lists ([] when files is not an array).
ListedFiles(raw) == IF raw.files = <<>> THEN <<>> ELSE raw.files[1]

\* C31: every code-mode plan runPlanner returns, parsed or fallback, lists
\* index.html, whatever files the model listed; a text-mode plan keeps the
\* files the model listed and is given no entry.
C31_CodePlanHasEntry ==
    plan # None =>
        /\ plan.mode \in {"code", "text"}
        /\ plan.mode = "code" => Includes(plan.files, P_index)
        /\ plan.mode = "text" => plan.files = ListedFiles(ReplyText("planner"))

\* C31 witness: the model's code plan lists files but not index.html, and the
\* parsed plan has index.html put first.
C31_Witness ==
    /\ plan # None
    /\ ~plan.fallback
    /\ plan.mode = "code"
    /\ ListedFiles(ReplyText("planner")) # <<>>
    /\ ~Includes(ListedFiles(ReplyText("planner")), P_index)
    /\ plan.files[1] = P_index

\* C31 witness: a text-mode plan that lists a file.
C31_WitnessText ==
    /\ plan # None
    /\ plan.mode = "text"
    /\ plan.files = <<P_readme>>

\* The timing entries the stages that ran to their end call for, in the order
\* they ended: validation and the repair call are the one stage "verifier".
TimedEnds ==
    SelectSeq(trace, LAMBDA e : e[2] = "end" /\ e[1] \in {"planner", "builder", "validate", "zip"})

ExpectedTimings ==
    [i \in 1..Len(TimedEnds) |->
        IF TimedEnds[i][1] = "validate" THEN "verifier" ELSE TimedEnds[i][1]]

\* The component-wise sum of the usages the resolved model calls reported.
RECURSIVE SumUsage(_)
SumUsage(rs) ==
    IF rs = <<>> THEN ZeroUsage
    ELSE LET rest == SumUsage(SubSeq(rs, 1, Len(rs) - 1))
             u == rs[Len(rs)].usage
         IN  IF u = <<>> THEN rest
             ELSE StepUsage(rest.promptTokens + u[1].promptTokens,
                            rest.completionTokens + u[1].completionTokens,
                            rest.totalTokens + u[1].totalTokens)

\* C23: every PipelineResult carries one timing entry per executed stage, in
\* execution order, and a totalUsage that is the component-wise sum of the
\* usages the executed model calls reported (none reported counts as zero).
C23_TimingsAndUsage ==
    pc = "returned" =>
        /\ result.timings = ExpectedTimings
        /\ result.totalUsage = SumUsage(replies)

\* C23 witness: a packaging failure after a repair, where the planner and the
\* repair call reported usage and the builder reported none.
C23_Witness ==
    /\ pc = "returned"
    /\ result.textResponse = NotPackagedMessage
    /\ Len(result.timings) = 4
    /\ Len(replies) = 3
    /\ replies[1].usage # <<>>
    /\ replies[2].usage = <<>>
    /\ replies[3].usage # <<>>

\* C23 witness: the text-mode path.
C23_WitnessText ==
    /\ pc = "returned"
    /\ HasReply("textResponse")
    /\ result.timings = <<"planner", "builder">>
    /\ result.totalUsage # ZeroUsage

\* C33: when the caller gave onStepComplete, it has been invoked once for every
\* stage that completed (the steps of timings), in stage order, by the time
\* runPipeline returns.
C33_StepCallbackInvoked ==
    onStepComplete.given =>
        /\ Len(onStepComplete.invoked) <= Len(timings)
        /\ \A i \in 1..Len(onStepComplete.invoked) : onStepComplete.invoked[i] = timings[i]
        /\ pc = "returned" => onStepComplete.invoked = timings

\* What the code does: runPipeline takes jobPrompt and budget from its options
\* and nothing else, so the callback is never invoked, given or not.
C33_StepCallbackNeverInvoked == onStepComplete.invoked = <<>>

\* The repair pass changed the files: its model call resolved with a response
\* that parses, says "fixed" and carries at least one patch, and the merge of
\* the patches did not throw.
RepairApplied ==
    /\ repair.kind = "resolved"
    /\ repair.text.json
    /\ LET out == parseVerifierResponse(repair.text) IN
         /\ out.status = "fixed"
         /\ Len(out.fixedFiles) > 0
         /\ ~applyFixesThrows(out.fixedFiles)

\* C34: issuesFixed and the "automatically corrected" list of the submission
\* message hold only issues the repair pass fixed: when the repair call failed,
\* came back unparseable or without patches, no issue is reported as fixed.
C34_OnlyFixedIssuesReported ==
    (pc = "returned" /\ result.mode = "code" /\ ~RepairApplied) =>
        /\ result.issuesFixed = <<>>
        /\ result.textResponse.corrected = <<>>

\* What the code does: whenever validateFiles found issues, runVerifier returns
\* them as issuesFound whether or not anything was repaired, and runPipeline
\* reports all of issuesFound as fixed and as automatically corrected.
C34_FoundIssuesReportedAsFixed ==
    (pc = "returned" /\ result.mode = "code") =>
        /\ result.textResponse.corrected = verifyResult.issuesFound
        /\ result.issuesFixed =
              IF verifyResult.issuesFound = <<>> THEN <<>> ELSE <<verifyResult.issuesFound>>
        /\ ~RepairApplied => verifyResult.issuesFound = validation
        /\ ~RepairApplied => verifyResult.files = buildResult.files

\* A path in normalized form: forward slashes only and no leading "./".
NormalForm(p) == stripDotSlash(backslashToSlash(p))

\* No two entries of fs denote the same normalized path.
DistinctNormalKeys(fs) ==
    \A i, j \in 1..Len(fs) : NormalForm(fs[i].path) = NormalForm(fs[j].path) => i = j

\* C38: the file list the builder hands to validation and the list handed to
\* packaging never hold two entries that denote the same normalized path.
C38_DistinctNormalKeys ==
    /\ buildResult # None => DistinctNormalKeys(buildResult.files)
    /\ DistinctNormalKeys(zipArg)

\* What holds of C38: both lists have pairwise distinct paths as written; the
\* build keeps every spelling of a path, and the list goes to packaging as it
\* was built unless a patch is applied.
C38_DistinctRawKeys ==
    /\ buildResult # None => DistinctPaths(buildResult.files)
    /\ DistinctPaths(zipArg)
    /\ (zipArg # <<>> /\ ~RepairApplied) => zipArg = buildResult.files

\* A textResponse that is a string: a text as the model gave it (the empty
\* string included), or one of the messages runPipeline writes.
DefinedText(t) == t.kind \in {"unable", "notPackaged", "submission"} \/ t.text # Undefined

C39_WitnessNotPackaged ==
    /\ PackagingFailed
    /\ Len(verifyResult.files) > 0
    /\ result.mode = "text"
    /\ result.zipPath = Undefined

\* C39 witness: a text plan answered with the empty string.
C39_WitnessEmptyText ==
    /\ pc = "returned"
    /\ plan.mode = "text"
    /\ result.textResponse = RawText("")

-----------------------------------------------------------------------------
(* The retry layer: withBackoff, LLMClient.generate, LLMClient.generateForStep *)

MaxAttempts == 3    \* maxAttempts / llmRetryMaxAttempts range over 0..MaxAttempts

DefaultBaseDelayMs == 1000
DefaultMaxDelayMs == 10000

\* Math.random() in thousandths: the lowest draw, the middle, and a high one.
RandomDraws == {0, 500, 990}

\* An error object: its name, its message, its cause (<<>> when it has none)
\* and, as a ghost, the number of the operation call that threw it (0 for the
\* fallback call).
Err(name, message, cause, at) == [name |-> name, message |-> message, cause |-> cause, at |-> at]

RETRYABLE_ERROR_PATTERNS ==
    {"InvalidToolArgumentsError", "AI_InvalidToolArgumentsError",
     "JSONParseError", "AI_JSONParseError"}

RetryableMessages == {"JSON parsing failed: unexpected token", "Invalid arguments for tool create_project"}

isRetryableError_never(error) == FALSE

isRetryableError_always(error) == TRUE

\* isRetryableError(error) of the client, isLLMToolError(error) of the backoff
\* module: the name, the message, then the cause chain.
RECURSIVE isRetryableError(_)
isRetryableError(error) ==
    IF error.name \in RETRYABLE_ERROR_PATTERNS THEN TRUE
    ELSE IF error.message \in RetryableMessages THEN TRUE
    ELSE IF error.cause # <<>> THEN isRetryableError(error.cause[1])
    ELSE FALSE

\* What one call of the operation does: it resolves, or it rejects with an
\* error the classifier accepts, or with one it does not.
Outcomes == {"ok", "retryable", "fatal"}

\* The error call number n rejects with.  The retryable ones take the three
\* forms the classifier knows: by name, by message, by cause.
ErrorOf(outcome, n) ==
    IF outcome = "fatal" THEN Err("APICallError", "401 Unauthorized", <<>>, n)
    ELSE IF n % 3 = 1 THEN Err("AI_JSONParseError", "bad json", <<>>, n)
    ELSE IF n % 3 = 2
         THEN Err("Error", "Invalid arguments for tool create_project", <<>>, n)
    ELSE Err("Error", "generation failed",
             <<Err("AI_InvalidToolArgumentsError", "bad args", <<>>, n)>>, n)

\* new Error(String(undefined)): what withBackoff throws when no call was made.
UndefinedError == Err("Error", "undefined", <<>>, 0)

Value(from, n) == [from |-> from, n |-> n]

Returned(v) == [kind |-> "returned", value |-> v]
Raised(e) == [kind |-> "raised", error |-> e]
Running == [kind |-> "running"]

\* One run: attempt and lastError are the function's locals; ops counts the
\* operation calls, exp lists the delays before jitter, slept is the delay of
\* the last sleep (-1 before the first), fallbacks counts the fallback calls.
Run(at, attempt, ops, exp, slept, fallbacks, lastError, end) ==
    [pc |-> at, attempt |-> attempt, ops |-> ops, exp |-> exp, slept |-> slept,
     fallbacks |-> fallbacks, lastError |-> lastError, end |-> end]

NewRun == Run("loop", 0, 0, <<>>, -1, 0, <<>>, Running)

Min(a, b) == IF a < b THEN a ELSE b

\* Math.round(n / d) for n >= 0, d > 0.
Round(n, d) == (2 * n + d) \div (2 * d)

\* Math.round(delay + delay * 0.25 * (Math.random() - 0.5)), draw in thousandths.
withJitter(delay, draw) == Round(delay * 4000 + delay * (draw - 500), 4000)

withJitter_clamped(delay, draw) ==
    IF draw > 500 THEN delay ELSE Round(delay * 4000 + delay * (draw - 500), 4000)

\* withBackoff: Math.min(maxDelayMs, baseDelayMs * Math.pow(2, attempt - 1))
expDelay(attempt) == Min(boIn.maxDelayMs, boIn.baseDelayMs * 2 ^ (attempt - 1))

\* getRetryDelay: Math.min(baseDelayMs * Math.pow(2, attempt), maxDelayMs)
retryDelayUnjittered(attempt) == Min(boIn.baseDelayMs * 2 ^ attempt, boIn.maxDelayMs)

\* getRetryDelay(attempt, retryConfig)
getRetryDelay(attempt, draw) == withJitter(retryDelayUnjittered(attempt), draw)

\* utils/backoff.ts: expDelay + Math.random() * 100, in whole milliseconds for
\* the draws above.
utilsDelay(attempt, draw) == expDelay(attempt) + draw \div 10

\* The fallback withBackoff is given: config.llmRetryFallbackNoTools ? ... : undefined
fallbackConfigured == boIn.fallbackNoTools

\* What the no-tools call does.
fallbackOutcome ==
    IF boIn.fbOutcome = "ok" THEN Returned(Value("fallback", 0))
    ELSE Raised(ErrorOf(boIn.fbOutcome, 0))

\* A base delay a caller or LLM_RETRY_BASE_DELAY_MS may set below the defaults.
ShortBaseDelayMs == 100

\* The limits are the configuration's (any integer parseInt accepts; here
\* 0..MaxAttempts attempts, a short and the default base delay, the default
\* ceiling and one of twice the default base delay); the operation's outcomes
\* are fixed per call number, so that every function below meets the same
\* sequence.
BackoffInit ==
    /\ \E m \in 0..MaxAttempts :
         boIn \in [maxAttempts : {m},
                   baseDelayMs : {ShortBaseDelayMs, DefaultBaseDelayMs},
                   maxDelayMs : {2 * DefaultBaseDelayMs, DefaultMaxDelayMs},
                   fallbackNoTools : BOOLEAN,
                   hasTools : BOOLEAN,
                   outcomes : [1..(m + 1) -> Outcomes],
                   fbOutcome : {"ok", "fatal"}]
    /\ wb = NewRun
    /\ gen = NewRun
    /\ gfs = NewRun
    /\ ub = NewRun
    /\ GateIdle
    /\ FixIdle
    /\ PipeIdle
    /\ ToolIdle
    /\ NormIdle
    /\ ValIdle

\* operation(attempt), call number n: resolves or rejects as the input says.
operationOutcome(n) ==
    IF boIn.outcomes[n] = "ok" THEN Returned(Value("operation", n))
    ELSE Raised(ErrorOf(boIn.outcomes[n], n))

\* withBackoff, one turn of the while loop: attempt++, the operation, and in
\* the catch either the throw or the sleep.
WithBackoffAttempt ==
    /\ wb.pc = "loop"
    /\ wb.attempt < boIn.maxAttempts
    /\ LET attempt == wb.attempt + 1
           out == operationOutcome(wb.ops + 1)
       IN  IF out.kind = "returned"
           THEN wb' = [wb EXCEPT !.pc = "done", !.attempt = attempt, !.ops = @ + 1,
                                 !.end = out]
           ELSE LET canRetry == attempt < boIn.maxAttempts /\ isRetryableError(out.error)
                IN  IF ~canRetry
                    THEN wb' = [wb EXCEPT !.pc = "done", !.attempt = attempt, !.ops = @ + 1,
                                          !.lastError = <<out.error>>,
                                          !.end = Raised(out.error)]
                    ELSE \E draw \in RandomDraws :
                           wb' = [wb EXCEPT !.attempt = attempt, !.ops = @ + 1,
                                            !.lastError = <<out.error>>,
                                            !.exp = Append(@, expDelay(attempt)),
                                            !.slept = withJitter(expDelay(attempt), draw)]
    /\ UNCHANGED <<boIn, gen, gfs, ub, gateVars, fixVars, pipeVars, toolVars, normVars, valVars>>

\* withBackoff after the loop: the fallback if there is one, else the throw of
\* lastError (an Error made of it when it is not one).
WithBackoffExhausted ==
    /\ wb.pc = "loop"
    /\ wb.attempt >= boIn.maxAttempts
    /\ IF fallbackConfigured
       THEN wb' = [wb EXCEPT !.pc = "fallback", !.fallbacks = @ + 1]
       ELSE wb' = [wb EXCEPT !.pc = "done",
                             !.end = Raised(IF wb.lastError = <<>> THEN UndefinedError
                                            ELSE wb.lastError[1])]
    /\ UNCHANGED <<boIn, gen, gfs, ub, gateVars, fixVars, pipeVars, toolVars, normVars, valVars>>

\* return fallback(): the fallback's promise is the result.
WithBackoffFallbackEnds ==
    /\ wb.pc = "fallback"
    /\ wb' = [wb EXCEPT !.pc = "done", !.end = fallbackOutcome]
    /\ UNCHANGED <<boIn, gen, gfs, ub, gateVars, fixVars, pipeVars, toolVars, normVars, valVars>>

\* generate's tools: hasTools ? tools : undefined, and the guard of its
\* fallback branch besides exhaustion and the classifier.
generateFallbackEnabled_always == TRUE

generateFallbackEnabled == boIn.hasTools /\ boIn.fallbackNoTools

\* LLMClient.generate, one turn of its while loop (attempt counts from 0 and
\* the loop runs while attempt <= maxRetries): the provider call, and in the
\* catch the sleep and attempt++, or the start of the no-tools call, or the
\* throw.
GenerateAttempt ==
    /\ wb.pc = "done"
    /\ gen.pc = "loop"
    /\ gen.attempt <= boIn.maxAttempts
    /\ LET out == operationOutcome(gen.ops + 1)
       IN  IF out.kind = "returned"
           THEN gen' = [gen EXCEPT !.pc = "done", !.ops = @ + 1, !.end = out]
           ELSE IF isRetryableError(out.error) /\ gen.attempt < boIn.maxAttempts
           THEN \E draw \in RandomDraws :
                  gen' = [gen EXCEPT !.attempt = @ + 1, !.ops = @ + 1,
                                     !.lastError = <<out.error>>,
                                     !.exp = Append(@, retryDelayUnjittered(gen.attempt)),
                                     !.slept = getRetryDelay(gen.attempt, draw)]
           ELSE IF /\ generateFallbackEnabled
                   /\ gen.attempt >= boIn.maxAttempts
                   /\ isRetryableError(out.error)
           THEN gen' = [gen EXCEPT !.pc = "fallback", !.ops = @ + 1,
                                   !.lastError = <<out.error>>, !.fallbacks = @ + 1]
           ELSE gen' = [gen EXCEPT !.pc = "done", !.ops = @ + 1,
                                   !.lastError = <<out.error>>, !.end = Raised(out.error)]
    /\ UNCHANGED <<boIn, wb, gfs, ub, gateVars, fixVars, pipeVars, toolVars, normVars, valVars>>

\* The no-tools call of generate ends: its result, or in the catch the throw of
\* lastError, the error of the last tooled call.
GenerateFallbackEnds ==
    /\ gen.pc = "fallback"
    /\ gen' = [gen EXCEPT !.pc = "done",
                          !.end = IF fallbackOutcome.kind = "returned" THEN fallbackOutcome
                                  ELSE Raised(gen.lastError[1])]
    /\ UNCHANGED <<boIn, wb, gfs, ub, gateVars, fixVars, pipeVars, toolVars, normVars, valVars>>

\* LLMClient.generateForStep: one executeGenerationWithProvider call, whose
\* promise is returned as it is.
GenerateForStep ==
    /\ gen.pc = "done"
    /\ gfs.pc = "loop"
    /\ LET out == operationOutcome(1)
       IN  gfs' = [gfs EXCEPT !.pc = "done", !.ops = 1, !.end = out,
                              !.lastError = IF out.kind = "raised" THEN <<out.error>> ELSE <<>>]
    /\ UNCHANGED <<boIn, wb, gen, ub, gateVars, fixVars, pipeVars, toolVars, normVars, valVars>>

\* The earlier withBackoff (utils/backoff.ts, no fallback option), one turn of
\* its loop with the caller's shouldRetry: on !canRetry it breaks and throws
\* lastError.
UtilsBackoffAttempt ==
    /\ gfs.pc = "done"
    /\ ub.pc = "loop"
    /\ ub.attempt < boIn.maxAttempts
    /\ LET attempt == ub.attempt + 1
           out == operationOutcome(ub.ops + 1)
       IN  IF out.kind = "returned"
           THEN ub' = [ub EXCEPT !.pc = "done", !.attempt = attempt, !.ops = @ + 1,
                                 !.end = out]
           ELSE LET canRetry == attempt < boIn.maxAttempts /\ isRetryableError(out.error)
                IN  IF ~canRetry
                    THEN ub' = [ub EXCEPT !.pc = "done", !.attempt = attempt, !.ops = @ + 1,
                                          !.lastError = <<out.error>>,
                                          !.end = Raised(out.error)]
                    ELSE \E draw \in RandomDraws :
                           ub' = [ub EXCEPT !.attempt = attempt, !.ops = @ + 1,
                                            !.lastError = <<out.error>>,
                                            !.exp = Append(@, expDelay(attempt)),
                                            !.slept = utilsDelay(attempt, draw)]
    /\ UNCHANGED <<boIn, wb, gen, gfs, gateVars, fixVars, pipeVars, toolVars, normVars, valVars>>

\* The earlier withBackoff with no attempt allowed: the loop is skipped and an
\* Error made of the undefined lastError is thrown.
UtilsBackoffExhausted ==
    /\ gfs.pc = "done"
    /\ ub.pc = "loop"
    /\ ub.attempt >= boIn.maxAttempts
    /\ ub' = [ub EXCEPT !.pc = "done",
                        !.end = Raised(IF ub.lastError = <<>> THEN UndefinedError
                                       ELSE ub.lastError[1])]
    /\ UNCHANGED <<boIn, wb, gen, gfs, gateVars, fixVars, pipeVars, toolVars, normVars, valVars>>

BackoffNext ==
    \/ WithBackoffAttempt
    \/ WithBackoffExhausted
    \/ WithBackoffFallbackEnds
    \/ GenerateAttempt
    \/ GenerateFallbackEnds
    \/ GenerateForStep
    \/ UtilsBackoffAttempt
    \/ UtilsBackoffExhausted

SpecBackoff == BackoffInit /\ [][BackoffNext]_vars

-----------------------------------------------------------------------------
(* The retry layer: claims *)

\* Calls 1..n of the operation all fail with a retryable error.
AllRetryable(n) ==
    /\ n \in DOMAIN boIn.outcomes
    /\ \A i \in 1..n : boIn.outcomes[i] = "retryable"

\* Call k of the operation is the first that does not fail with a retryable
\* error, and it ends as outcome says.
FirstOther(k, outcome) ==
    /\ k \in DOMAIN boIn.outcomes
    /\ boIn.outcomes[k] = outcome
    /\ \A i \in 1..(k - 1) : boIn.outcomes[i] = "retryable"

\* C15: when every allowed attempt failed with a retryable error, withBackoff
\* (maxAttempts attempts) and generate (maxRetries + 1 attempts) call the
\* fallback exactly once if one is configured and return its result, and raise
\* the last error if none is.
C15_FallbackAfterExhaustion ==
    /\ (wb.pc = "done" /\ boIn.maxAttempts >= 1 /\ AllRetryable(boIn.maxAttempts)) =>
          IF fallbackConfigured
          THEN wb.fallbacks = 1 /\ wb.end = fallbackOutcome
          ELSE wb.fallbacks = 0
               /\ wb.end = Raised(ErrorOf("retryable", boIn.maxAttempts))
    /\ (gen.pc = "done" /\ AllRetryable(boIn.maxAttempts + 1)) =>
          IF generateFallbackEnabled
          THEN gen.fallbacks = 1
               /\ (fallbackOutcome.kind = "returned" => gen.end = fallbackOutcome)
          ELSE gen.fallbacks = 0
               /\ gen.end = Raised(ErrorOf("retryable", boIn.maxAttempts + 1))

\* What holds of C15: generate does as the claim says; withBackoff with one or
\* more attempts allowed never calls its fallback and raises the last error.
C15_OnlyGenerateFallsBack ==
    /\ (wb.pc = "done" /\ boIn.maxAttempts >= 1 /\ AllRetryable(boIn.maxAttempts)) =>
          /\ wb.fallbacks = 0
          /\ wb.end = Raised(ErrorOf("retryable", boIn.maxAttempts))
    /\ boIn.maxAttempts >= 1 => wb.fallbacks = 0
    /\ (gen.pc = "done" /\ AllRetryable(boIn.maxAttempts + 1)) =>
          IF generateFallbackEnabled
          THEN gen.fallbacks = 1
               /\ gen.end = IF fallbackOutcome.kind = "returned" THEN fallbackOutcome
                            ELSE Raised(ErrorOf("retryable", boIn.maxAttempts + 1))
          ELSE gen.fallbacks = 0
               /\ gen.end = Raised(ErrorOf("retryable", boIn.maxAttempts + 1))

\* What C16 says of one run r that is allowed n attempts, when call k <= n is
\* the first non-retryable failure: the call is the last one, k - 1 delays were
\* slept before it and none after, no fallback, and its error is raised.
FatalPropagates(r, n) ==
    \A k \in 1..n :
        (FirstOther(k, "fatal") /\ r.ops >= k) =>
            /\ r.pc = "done"
            /\ r.ops = k
            /\ Len(r.exp) = k - 1
            /\ r.fallbacks = 0
            /\ r.end = Raised(ErrorOf("fatal", k))

\* C16: a non-retryable failure propagates at once from withBackoff and from
\* generate: no delay, no further call of the operation, no fallback, however
\* many attempts remain.
C16_FatalPropagatesAtOnce ==
    /\ FatalPropagates(wb, boIn.maxAttempts)
    /\ FatalPropagates(gen, boIn.maxAttempts + 1)
    /\ FatalPropagates(ub, boIn.maxAttempts)

\* C16 witness: three attempts allowed, a fallback configured, the second call
\* failed fatally: both functions are done after two calls.
C16_Witness ==
    /\ boIn.maxAttempts = 3
    /\ boIn.fallbackNoTools /\ boIn.hasTools
    /\ FirstOther(2, "fatal")
    /\ wb.pc = "done" /\ wb.ops = 2
    /\ gen.pc = "done" /\ gen.ops = 2

\* C17: retryable failures on calls 1..k-1 and success on call k <= maxAttempts:
\* withBackoff sleeps exactly k - 1 times, returns the result of call k and
\* never calls the fallback.
C17_RetriesThenSuccess ==
    \A k \in 1..boIn.maxAttempts :
        FirstOther(k, "ok") =>
            /\ wb.fallbacks = 0
            /\ wb.ops <= k
            /\ Len(wb.exp) <= k - 1
            /\ wb.end.kind # "raised"
            /\ wb.ops = k =>
                  /\ wb.pc = "done"
                  /\ Len(wb.exp) = k - 1
                  /\ wb.end = Returned(Value("operation", k))

\* C17 witness: maxAttempts = 3, two retryable failures, then success, with a
\* fallback configured: two delays, the third call's result.
C17_Witness ==
    /\ boIn.maxAttempts = 3
    /\ boIn.fallbackNoTools
    /\ FirstOther(3, "ok")
    /\ wb.pc = "done"
    /\ Len(wb.exp) = 2
    /\ wb.end = Returned(Value("operation", 3))

\* C18: every delay slept between retries is at most maxDelayMs, in withBackoff,
\* in generate (getRetryDelay) and in the earlier withBackoff.
C18_DelayBounded ==
    /\ wb.slept <= boIn.maxDelayMs
    /\ gen.slept <= boIn.maxDelayMs
    /\ ub.slept <= boIn.maxDelayMs

\* What holds of C18: the delay before jitter is at most maxDelayMs, and the
\* delay slept at most maxDelayMs plus an eighth (plus 100 ms in the earlier
\* withBackoff).
C18_DelayBoundedBeforeJitter ==
    /\ \A i \in 1..Len(wb.exp) : wb.exp[i] <= boIn.maxDelayMs
    /\ \A i \in 1..Len(gen.exp) : gen.exp[i] <= boIn.maxDelayMs
    /\ \A i \in 1..Len(ub.exp) : ub.exp[i] <= boIn.maxDelayMs
    /\ 8 * wb.slept <= 9 * boIn.maxDelayMs
    /\ 8 * gen.slept <= 9 * boIn.maxDelayMs
    /\ ub.slept <= boIn.maxDelayMs + 100

\* C19: a retryable error of a model call made through generateForStep reaches
\* the stage only after the retry budget and the no-tools fallback are used up.
C19_StepCallsRetried ==
    (gfs.pc = "done" /\ gfs.end.kind = "raised" /\ boIn.outcomes[1] = "retryable") =>
        /\ gfs.ops = boIn.maxAttempts + 1
        /\ boIn.fallbackNoTools => gfs.fallbacks = 1

\* What the code does: one provider call per generateForStep call, whatever it
\* rejects with.
C19_StepCallsSingleShot ==
    gfs.pc = "done" =>
        /\ gfs.ops = 1
        /\ gfs.fallbacks = 0
        /\ gfs.exp = <<>>
        /\ gfs.end = operationOutcome(1)

\* C20: with the same limits, classifier, fallback (the no-tools call, tools
\* enabled) and operation outcomes, withBackoff and generate make the same
\* number of operation calls, sleep the same delays before jitter, call the
\* fallback in the same cases and end alike.
C20_WithBackoffMatchesGenerate ==
    (wb.pc = "done" /\ gen.pc = "done" /\ boIn.hasTools) =>
        /\ wb.ops = gen.ops
        /\ wb.exp = gen.exp
        /\ wb.fallbacks = gen.fallbacks
        /\ wb.end = gen.end

\* What holds of C20: generate allows one attempt more than withBackoff, so the
\* two agree exactly when call number maxAttempts or an earlier one succeeds or
\* fails fatally; until then the delays before jitter are the same.
C20_AgreeBeforeExhaustion ==
    (wb.pc = "done" /\ gen.pc = "done" /\ boIn.maxAttempts >= 1) =>
        /\ \A i \in 1..Len(wb.exp) : i <= Len(gen.exp) /\ wb.exp[i] = gen.exp[i]
        /\ ~AllRetryable(boIn.maxAttempts) =>
              /\ wb.ops = gen.ops
              /\ wb.exp = gen.exp
              /\ wb.fallbacks = gen.fallbacks
              /\ wb.end = gen.end

\* The error lastError holds after run r's regular attempts: the Error that
\* "throw lastError instanceof Error ? lastError : new Error(String(lastError))"
\* raises.
LastErrorOf(r) == IF r.lastError = <<>> THEN UndefinedError ELSE r.lastError[1]

\* C32: when a fallback is configured, invoked and fails, withBackoff and
\* generate raise the last error of the regular attempts, not the fallback's
\* own error.
C32_FailedFallbackRaisesLastError ==
    /\ (wb.pc = "done" /\ wb.fallbacks = 1 /\ fallbackOutcome.kind = "raised") =>
          wb.end = Raised(LastErrorOf(wb))
    /\ (gen.pc = "done" /\ gen.fallbacks = 1 /\ fallbackOutcome.kind = "raised") =>
          gen.end = Raised(LastErrorOf(gen))

\* What holds of C32: generate raises the error of its last tooled call;
\* withBackoff raises whatever its fallback raised.
C32_OnlyGenerateRaisesLastError ==
    /\ (wb.pc = "done" /\ wb.fallbacks = 1 /\ fallbackOutcome.kind = "raised") =>
          wb.end = fallbackOutcome
    /\ (gen.pc = "done" /\ gen.fallbacks = 1 /\ fallbackOutcome.kind = "raised") =>
          /\ gen.lastError # <<>>
          /\ gen.end = Raised(gen.lastError[1])
          /\ gen.end # fallbackOutcome

\* C35: withBackoff invokes its fallback at most once, and only after the
\* operation was invoked maxAttempts >= 1 times and failed with a retryable
\* error every time; never when the operation was not attempted, nor after a
\* success or a non-retryable failure.
C35_FallbackOnlyAfterAttempts ==
    /\ wb.fallbacks <= 1
    /\ wb.fallbacks = 1 =>
          /\ wb.ops >= 1
          /\ wb.ops = boIn.maxAttempts
          /\ AllRetryable(boIn.maxAttempts)

\* What holds of C35: the fallback is invoked at most once, and exactly in the
\* runs that allow no attempt at all; it never follows a call of the operation.
C35_FallbackOnlyWithoutAttempts ==
    /\ wb.fallbacks <= 1
    /\ wb.fallbacks = 1 => (boIn.maxAttempts = 0 /\ wb.ops = 0 /\ fallbackConfigured)
    /\ (wb.pc = "done" /\ boIn.maxAttempts = 0 /\ fallbackConfigured) => wb.fallbacks = 1
    /\ wb.ops >= 1 => wb.fallbacks = 0

\* C36: one logical model call makes a bounded number of provider invocations:
\* withBackoff at most maxAttempts calls of the operation, generate at most
\* llmRetryMaxAttempts tooled calls, each with at most one fallback call.
C36_BoundedInvocations ==
    /\ wb.ops <= boIn.maxAttempts
    /\ wb.fallbacks <= 1
    /\ gen.ops <= boIn.maxAttempts
    /\ gen.fallbacks <= 1

\* What holds of C36: generate makes up to llmRetryMaxAttempts + 1 tooled
\* calls, and makes that many whenever all of them fail with a retryable error.
C36_BoundedByOneMore ==
    /\ wb.ops <= boIn.maxAttempts
    /\ wb.fallbacks <= 1
    /\ gen.ops <= boIn.maxAttempts + 1
    /\ gen.fallbacks <= 1
    /\ (gen.pc = "done" /\ AllRetryable(boIn.maxAttempts + 1)) =>
          gen.ops = boIn.maxAttempts + 1

\* The delay before jitter that the claim gives for the retry after failed
\* attempt number n, counted from 0.
ScheduledDelay(n) == Min(boIn.maxDelayMs, boIn.baseDelayMs * 2 ^ n)

\* The delays before jitter of run r follow the schedule: they are
\* non-decreasing and start at baseDelayMs.
FollowsSchedule(r) ==
    /\ \A i \in 1..Len(r.exp) : r.exp[i] = ScheduledDelay(i - 1)
    /\ \A i \in 1..(Len(r.exp) - 1) : r.exp[i] <= r.exp[i + 1]
    /\ r.exp # <<>> => r.exp[1] = boIn.baseDelayMs

\* The distance of the delay run r slept last from its value before jitter.
JitterOf(r) ==
    LET d == r.slept - r.exp[Len(r.exp)] IN IF d < 0 THEN 0 - d ELSE d

\* C37: the wait before jitter after failed attempt n (from 0) is
\* min(maxDelay, baseDelay * 2^n), non-decreasing and baseDelay at first, and
\* the wait slept is within 25% of it, in withBackoff, in generate and in the
\* earlier withBackoff.
C37_ScheduleAndJitter ==
    /\ FollowsSchedule(wb)
    /\ FollowsSchedule(gen)
    /\ FollowsSchedule(ub)
    /\ wb.exp # <<>> => 4 * JitterOf(wb) <= wb.exp[Len(wb.exp)]
    /\ gen.exp # <<>> => 4 * JitterOf(gen) <= gen.exp[Len(gen.exp)]
    /\ ub.exp # <<>> => 4 * JitterOf(ub) <= ub.exp[Len(ub.exp)]

\* What holds of C37: the schedule in all three; a jitter of at most an eighth
\* (half a millisecond of rounding aside) in withBackoff and generate; in the
\* earlier withBackoff an addition of less than 100 ms whatever the delay.
C37_ScheduleAndAbsoluteJitter ==
    /\ FollowsSchedule(wb)
    /\ FollowsSchedule(gen)
    /\ FollowsSchedule(ub)
    /\ wb.exp # <<>> => 8 * JitterOf(wb) <= wb.exp[Len(wb.exp)] + 4
    /\ gen.exp # <<>> => 8 * JitterOf(gen) <= gen.exp[Len(gen.exp)] + 4
    /\ ub.exp # <<>> =>
          /\ ub.slept >= ub.exp[Len(ub.exp)]
          /\ ub.slept < ub.exp[Len(ub.exp)] + 100

-----------------------------------------------------------------------------
(* llm/client: the active project builder and the project tools *)

MaxToolCalls == 4   \* tool invocations and resets recorded in one log

\* Tasks whose model calls are in flight at the same time.
Tasks == {"t1", "t2"}

ToolPaths == {P_index, P_css}

\* A file as a tool execute() receives it, with the task whose model call
\* supplied it (ghost).
ToolFile(path, by) == [path |-> path, by |-> by]

\* new ProjectBuilder(): a builder holding no file.
NewProjectBuilder == [files |-> <<>>]

\* builder.addFile(path, content): the file is accumulated in the builder.
addFile(builder, f) == [files |-> Append(builder.files, f)]

\* builder.createBatch(projectName, files)
createBatch(builder, files) == [files |-> builder.files \o files]

\* builder.getFiles(), and the files createZip reports
getFiles(builder) == builder.files

\* One recorded step: the task, the tool ("reset" for the assignment of null
\* made by generate and by generateForStep("planner")), the files returned to
\* the task (<<>> when it returns none or throws) and the slot it found.
ToolStep(task, tool, ret, pre) == [task |-> task, tool |-> tool, ret |-> ret, pre |-> pre]

ToolInit ==
    /\ activeProjectBuilder = None
    /\ toolLog = <<>>
    /\ GateIdle
    /\ FixIdle
    /\ PipeIdle
    /\ BackoffIdle
    /\ NormIdle
    /\ ValIdle

\* generate() on entry, before a retry and before the fallback, and
\* generateForStep("planner"): activeProjectBuilder = null.
ResetBuilder(t) ==
    /\ Len(toolLog) < MaxToolCalls
    /\ activeProjectBuilder' = None
    /\ toolLog' = Append(toolLog, ToolStep(t, "reset", <<>>, activeProjectBuilder))
    /\ UNCHANGED <<gateVars, fixVars, pipeVars, backoffVars, normVars, valVars>>

\* create_project.execute: a new builder takes the batch, becomes the active
\* one, and its files are returned.
create_project(t, paths) ==
    LET builder == createBatch(NewProjectBuilder, [i \in 1..Len(paths) |-> ToolFile(paths[i], t)])
    IN  /\ Len(toolLog) < MaxToolCalls
        /\ activeProjectBuilder' = builder
        /\ toolLog' = Append(toolLog,
               ToolStep(t, "create_project", getFiles(builder), activeProjectBuilder))
        /\ UNCHANGED <<gateVars, fixVars, pipeVars, backoffVars, normVars, valVars>>

\* create_file.execute: a builder is created only when the slot is empty, the
\* file is added to the active builder and all its files are returned.
create_file(t, path) ==
    LET found == IF activeProjectBuilder = None THEN NewProjectBuilder
                 ELSE activeProjectBuilder
        builder == addFile(found, ToolFile(path, t))
    IN  /\ Len(toolLog) < MaxToolCalls
        /\ activeProjectBuilder' = builder
        /\ toolLog' = Append(toolLog,
               ToolStep(t, "create_file", getFiles(builder), activeProjectBuilder))
        /\ UNCHANGED <<gateVars, fixVars, pipeVars, backoffVars, normVars, valVars>>

\* finalize_project.execute: throws when the slot is empty, else zips the
\* active builder and returns its files.
finalize_project(t) ==
    /\ Len(toolLog) < MaxToolCalls
    /\ toolLog' = Append(toolLog,
           ToolStep(t, "finalize_project",
                    IF activeProjectBuilder = None THEN <<>>
                    ELSE getFiles(activeProjectBuilder),
                    activeProjectBuilder))
    /\ UNCHANGED <<activeProjectBuilder, gateVars, fixVars, pipeVars, backoffVars,
                   normVars, valVars>>

ToolReset == \E t \in Tasks : ResetBuilder(t)
ToolCreateProject == \E t \in Tasks, p \in ToolPaths : create_project(t, <<p>>)
ToolCreateFile == \E t \in Tasks, p \in ToolPaths : create_file(t, p)
ToolFinalizeProject == \E t \in Tasks : finalize_project(t)

\* The event loop runs each execute() up to its await; the model calls of
\* concurrent tasks, and so their tool invocations, interleave freely.
ToolNext ==
    \/ ToolReset
    \/ ToolCreateProject
    \/ ToolCreateFile
    \/ ToolFinalizeProject

SpecTools == ToolInit /\ [][ToolNext]_vars

\* The tasks that supplied the files a builder slot holds.
SuppliersOf(slot) ==
    IF slot = None THEN {} ELSE {slot.files[i].by : i \in 1..Len(slot.files)}

\* C21: the files accumulated by one task's tool invocations are task-local:
\* no invocation adds to, returns or resets a builder holding files that
\* another task supplied.
C21_BuilderTaskLocal ==
    \A k \in 1..Len(toolLog) :
        /\ \A i \in 1..Len(toolLog[k].ret) : toolLog[k].ret[i].by = toolLog[k].task
        /\ SuppliersOf(toolLog[k].pre) \subseteq {toolLog[k].task}

\* What holds of C21: a task that runs alone finds and gets only its own files.
C21_AloneTaskLocal ==
    (\A k \in 1..Len(toolLog) : toolLog[k].task = "t1") => C21_BuilderTaskLocal

-----------------------------------------------------------------------------
(* llm/providers/normalize: normalizeGenerateResult *)

MaxSteps == 2       \* steps in one GenerateTextResult

\* A tool call of the SDK result: rawArgs is tc.args ?? tc.input.
SdkToolCall(toolName, toolCallId, rawArgs) ==
    [toolName |-> toolName, toolCallId |-> toolCallId, rawArgs |-> rawArgs]

\* A tool result of the SDK result: out is tr.result ?? tr.output.
SdkToolResult(toolCallId, out) == [toolCallId |-> toolCallId, out |-> out]

\* One step: text (Undefined when absent), toolCalls, toolResults and the
\* tool-call parts of its content array.
SdkStep(text, toolCalls, toolResults, content) ==
    [text |-> text, toolCalls |-> toolCalls, toolResults |-> toolResults,
     content |-> content, finishReason |-> "tool-calls"]

\* usage / totalUsage of the SDK result, every field optional.
SdkUsage(promptTokens, completionTokens, inputTokens, outputTokens, totalTokens) ==
    [promptTokens |-> promptTokens, completionTokens |-> completionTokens,
     inputTokens |-> inputTokens, outputTokens |-> outputTokens,
     totalTokens |-> totalTokens]

\* The GenerateTextResult: steps is <<>> when absent, else <<the array>>.
GenerateTextResult(text, finishReason, steps, toolCalls, toolResults, usage, total) ==
    [text |-> text, finishReason |-> finishReason, steps |-> steps,
     toolCalls |-> toolCalls, toolResults |-> toolResults,
     usage |-> usage, totalUsage |-> total]

ProviderToolCall(name, args, res) == [name |-> name, args |-> args, result |-> res]

ProviderGenerateResult(text, toolCalls, usage, finishReason) ==
    [text |-> text, toolCalls |-> toolCalls, usage |-> usage, finishReason |-> finishReason]

\* !x for a string or undefined
Blank(x) == x = Undefined \/ x = ""

\* typeof rawArgs === "object" && rawArgs !== null && !Array.isArray(rawArgs) ? rawArgs : {}
argsOf(rawArgs) == IF rawArgs \in {"[array]", Undefined} THEN "{}" ELSE rawArgs

\* a ?? b for optional numbers
Coalesce(a, b) == IF a # <<>> THEN a ELSE b

\* The usage field returned for raw (<<>> when raw is undefined).
usageOf(raw) ==
    IF raw = <<>> THEN <<>>
    ELSE LET promptTokens == Coalesce(Coalesce(raw[1].promptTokens, raw[1].inputTokens), <<0>>)[1]
             completionTokens ==
                 Coalesce(Coalesce(raw[1].completionTokens, raw[1].outputTokens), <<0>>)[1]
         IN  <<StepUsage(promptTokens, completionTokens,
                         Coalesce(raw[1].totalTokens, <<promptTokens + completionTokens>>)[1])>>

\* stepToolResults?.find((tr) => tr.toolCallId === id), then result ?? output
findResult(results, id) ==
    LET hits == {i \in 1..Len(results) : results[i].toolCallId = id}
    IN  IF hits = {} THEN Undefined
        ELSE results[CHOOSE i \in hits : \A j \in hits : i <= j].out

\* allResultsById.get(id): the last defined result set under id.
lastResult(results, id) ==
    LET hits == {i \in 1..Len(results) : results[i].toolCallId = id /\ results[i].out # Undefined}
    IN  IF hits = {} THEN Undefined
        ELSE results[CHOOSE i \in hits : \A j \in hits : i >= j].out

stepsOf(res) == IF res.steps = <<>> THEN <<>> ELSE res.steps[1]

\* let text = result.text; if (!text && toolCalls.length > 0 && result.steps?.length)
\* the text of the last step that has one; returned as text ?? "".
textOf(res, toolCalls) ==
    LET steps == stepsOf(res)
        withText == {i \in 1..Len(steps) : ~Blank(steps[i].text)}
    IN  IF Blank(res.text) /\ Len(toolCalls) > 0 /\ Len(steps) > 0 /\ withText # {}
        THEN steps[CHOOSE i \in withText : \A j \in withText : i >= j].text
        ELSE IF res.text = Undefined THEN "" ELSE res.text

\* normalizeGenerateResult, first definition of the file: tool calls from the
\* steps only, each with the result found in its own step.
normalizeGenerateResultV1(res) ==
    LET steps == stepsOf(res)
        toolCalls == Flatten([i \in 1..Len(steps) |->
            [k \in 1..Len(steps[i].toolCalls) |->
                LET tc == steps[i].toolCalls[k]
                IN  ProviderToolCall(tc.toolName, argsOf(tc.rawArgs),
                                     findResult(steps[i].toolResults, tc.toolCallId))]])
    IN  ProviderGenerateResult(textOf(res, toolCalls),
                               IF Len(toolCalls) > 0 THEN <<toolCalls>> ELSE <<>>,
                               usageOf(res.usage), Undefined)

\* normalizeGenerateResult, second definition of the file: results collected
\* from every step and the top level, calls from the steps (toolCalls, else
\* the tool-call parts of content), else from the top level.
normalizeGenerateResult(res) ==
    LET steps == stepsOf(res)
        allResults == Flatten([i \in 1..Len(steps) |-> steps[i].toolResults]) \o res.toolResults
        push(tc) == ProviderToolCall(tc.toolName, argsOf(tc.rawArgs),
                                     lastResult(allResults, tc.toolCallId))
        fromSteps == Flatten([i \in 1..Len(steps) |->
            IF Len(steps[i].toolCalls) > 0
            THEN [k \in 1..Len(steps[i].toolCalls) |-> push(steps[i].toolCalls[k])]
            ELSE [k \in 1..Len(steps[i].content) |-> push(steps[i].content[k])]])
        topLevel == [k \in 1..Len(res.toolCalls) |->
            LET tc == res.toolCalls[k]
                own == findResult(res.toolResults, tc.toolCallId)
            IN  ProviderToolCall(tc.toolName, argsOf(tc.rawArgs),
                    IF own # Undefined THEN own ELSE lastResult(allResults, tc.toolCallId))]
        toolCalls == IF Len(fromSteps) = 0 THEN topLevel ELSE fromSteps
        finishReason ==
            IF res.finishReason # Undefined THEN res.finishReason
            ELSE IF Len(steps) > 0 THEN steps[Len(steps)].finishReason ELSE Undefined
    IN  ProviderGenerateResult(textOf(res, toolCalls),
                               IF Len(toolCalls) > 0 THEN <<toolCalls>> ELSE <<>>,
                               usageOf(Coalesce(res.usage, res.totalUsage)), finishReason)

\* The step shapes offered: every kind of text, with no tool call, with one
\* tool call and its result, or with the call only as a content part.
TC_project == SdkToolCall("create_project", "call-1", "{files}")
TR_project == SdkToolResult("call-1", "zip")

StepShapes ==
    {SdkStep(t, c[1], c[2], c[3]) :
        t \in {Undefined, "", "step A", "step B"},
        c \in {<<<<>>, <<>>, <<>>>>,
               <<<<TC_project>>, <<TR_project>>, <<>>>>,
               <<<<>>, <<TR_project>>, <<TC_project>>>>}}

Usage4 == SdkUsage(<<10>>, <<5>>, <<>>, <<>>, <<15>>)
Usage5 == SdkUsage(<<>>, <<>>, <<10>>, <<5>>, <<>>)

NormInit ==
    /\ nzPc = "input"
    /\ \E text \in {Undefined, "", "top"},
          finishReason \in {Undefined, "stop"},
          steps \in {<<>>} \cup {<<ss>> : ss \in SeqsUpTo(StepShapes, 0, MaxSteps)},
          top \in {<<<<>>, <<>>>>, <<<<TC_project>>, <<TR_project>>>>},
          usage \in {<<<<>>, <<>>>>, <<<<Usage4>>, <<>>>>, <<<<>>, <<Usage5>>>>} :
        nzIn = GenerateTextResult(text, finishReason, steps, top[1], top[2], usage[1], usage[2])
    /\ nzOut = None
    /\ GateIdle
    /\ FixIdle
    /\ PipeIdle
    /\ BackoffIdle
    /\ ToolIdle
    /\ ValIdle

Normalize ==
    /\ nzPc = "input"
    /\ nzPc' = "normalized"
    /\ nzOut' = normalizeGenerateResult(nzIn)
    /\ UNCHANGED <<nzIn, gateVars, fixVars, pipeVars, backoffVars, toolVars, valVars>>

NormalizeV1 ==
    /\ nzPc = "input"
    /\ nzPc' = "normalizedV1"
    /\ nzOut' = normalizeGenerateResultV1(nzIn)
    /\ UNCHANGED <<nzIn, gateVars, fixVars, pipeVars, backoffVars, toolVars, valVars>>

NormNext == Normalize \/ NormalizeV1

SpecNormalize == NormInit /\ [][NormNext]_vars

\* The steps of the argument that carry text, and the last of them.
StepsWithText == {i \in 1..Len(stepsOf(nzIn)) : ~Blank(stepsOf(nzIn)[i].text)}
LastStepText == stepsOf(nzIn)[CHOOSE i \in StepsWithText : \A j \in StepsWithText : i >= j].text

\* C24: when no tool invocation was extracted, the top-level text is blank
\* and some step carries text, the text returned is that of the last step
\* with non-empty text.
C24_StepTextWithoutToolCalls ==
    (nzPc \in {"normalized", "normalizedV1"} /\ nzOut.toolCalls = <<>>
        /\ Blank(nzIn.text) /\ StepsWithText # {}) =>
            nzOut.text = LastStepText

\* What holds of C24: the last step's text is taken when the top-level text
\* is blank and at least one tool invocation was extracted; with none
\* extracted the blank top-level text is returned as "".
C24_StepTextWithToolCalls ==
    (nzPc \in {"normalized", "normalizedV1"} /\ Blank(nzIn.text) /\ StepsWithText # {}) =>
        /\ nzOut.toolCalls # <<>> => nzOut.text = LastStepText
        /\ nzOut.toolCalls = <<>> => nzOut.text = ""

-----------------------------------------------------------------------------
(* validateFiles and the merge of a patch, as functions of a file list *)

MaxExtras == 2      \* files besides the markup file in one list

P_about == <<"about.html">>
P_dotCss == <<".", "/", "styles", "/", "main.css">>
U_cdnCss == <<"https://", "cdn.example", "/", "site.css">>
R_data == <<"data:", "image/png;base64,AAAA">>
R_blob == <<"blob:", "https://", "app.example", "/", "1f0c">>
R_mailto == <<"mailto:", "team@example.com">>

\* A markup document with the five structure markers, the given other
\* markers and one list of values per extracting pattern.
Html(marks, links, scripts, imgs) ==
    Content(300, 300, AllMarks \cup marks, links, scripts, imgs, <<>>)

HtmlGood == Html({}, <<>>, <<>>, <<>>)

HtmlContents ==
    {HtmlGood, HtmlNoViewport,
     Html({"x-directive"}, <<>>, <<>>, <<>>),
     Html({"x-directive", "x-data"}, <<>>, <<>>, <<>>),
     Html({"@directive"}, <<>>, <<>>, <<>>),
     Html({"@directive", "x-data"}, <<>>, <<>>, <<>>),
     Html({"word@directive"}, <<>>, <<>>, <<>>)}
    \cup {Html({}, <<r>>, <<>>, <<>>) : r \in {P_css, P_dotCss, U_cdnCss, R_blob, R_mailto}}
    \cup {Html({}, <<>>, <<r>>, <<>>) : r \in {P_js, U_cdnJs, R_data}}
    \cup {Html({}, <<>>, <<>>, <<r>>) : r \in {P_logo, R_data, R_blob}}

\* The markup file of a list: index.html with any of the documents, or one
\* under another name or spelling.
HtmlFiles ==
    {File(P_index, c) : c \in HtmlContents}
    \cup {File(P_about, HtmlGood), File(P_about, HtmlNoViewport), File(P_dotIndex, HtmlGood)}

Asset(trimLen, stripLen, urls) == Content(trimLen, stripLen, {}, <<>>, <<>>, <<>>, urls)
AssetGood == Asset(200, 200, <<>>)
AssetHollow == Asset(40, 4, <<>>)
AssetEmpty == Asset(0, 0, <<>>)

ExtraFiles ==
    {File(P_readme, ReadmeLong), File(P_readme, ReadmeShort),
     File(P_readmeLower, ReadmeLong), File(P_readmeLower, ReadmeShort),
     File(P_css, AssetGood), File(P_css, AssetHollow), File(P_css, AssetEmpty),
     File(P_css, Asset(200, 200, <<P_logo>>)),
     File(P_js, AssetGood), File(P_js, AssetHollow),
     File(P_logo, AssetGood)}

ValInit ==
    /\ vfPc = "input"
    /\ \E html \in {<<>>} \cup {<<h>> : h \in HtmlFiles},
          extras \in SeqsUpTo(ExtraFiles, 0, MaxExtras) :
        vfFiles = html \o extras
    /\ vfReport = None
    /\ vfPatch = <<>>
    /\ vfMerged = <<>>
    /\ vfAfter = None
    /\ GateIdle
    /\ FixIdle
    /\ PipeIdle
    /\ BackoffIdle
    /\ ToolIdle
    /\ NormIdle

\* The paths an issue names: the file it is about and the reference it
\* quotes; the two entry messages name index.html and README.md.
NamedPaths(issue) ==
    IF issue[1] = "index-missing" THEN <<P_index>>
    ELSE IF issue[1] \in {"readme-missing", "readme-short"} THEN <<P_readme>>
    ELSE <<issue[2]>> \o (IF issue[3] = NoPath THEN <<>> ELSE <<issue[3]>>)

RECURSIVE KeepFirst(_)
KeepFirst(ps) ==
    IF ps = <<>> THEN <<>>
    ELSE LET rest == KeepFirst(SubSeq(ps, 1, Len(ps) - 1))
             last == ps[Len(ps)]
         IN  IF \E i \in 1..Len(rest) : rest[i] = last THEN rest ELSE Append(rest, last)

\* Content that raises no issue in any set: a complete document without
\* references or directives, a long README, a substantive asset.
Corrected(path) ==
    IF endsWithHtml(path) THEN HtmlGood
    ELSE IF toLowerCase(path) = P_readmeLower THEN ReadmeLong
    ELSE AssetGood

\* A patch with corrected content, or the missing file, for every path the
\* issues name, under the path as the issue writes it.
RepairPatch(issues) ==
    LET named == KeepFirst(Flatten([i \in 1..Len(issues) |-> NamedPaths(issues[i])]))
    IN  [i \in 1..Len(named) |-> File(named[i], Corrected(named[i]))]

Validate ==
    /\ vfPc = "input"
    /\ vfPc' = "validated"
    /\ vfReport' = validateFiles(vfFiles)
    /\ UNCHANGED <<vfFiles, vfPatch, vfMerged, vfAfter,
                   gateVars, fixVars, pipeVars, backoffVars, toolVars, normVars>>

\* The patch for the issues found is merged into the list.
Merge ==
    /\ vfPc = "validated"
    /\ Len(vfReport.issues) > 0
    /\ vfPc' = "merged"
    /\ vfPatch' = RepairPatch(vfReport.issues)
    /\ vfMerged' = applyFixes(vfFiles, RepairPatch(vfReport.issues))
    /\ UNCHANGED <<vfFiles, vfReport, vfAfter,
                   gateVars, fixVars, pipeVars, backoffVars, toolVars, normVars>>

\* The merged list is validated again.
Revalidate ==
    /\ vfPc = "merged"
    /\ vfPc' = "revalidated"
    /\ vfAfter' = validateFiles(vfMerged)
    /\ UNCHANGED <<vfFiles, vfReport, vfPatch, vfMerged,
                   gateVars, fixVars, pipeVars, backoffVars, toolVars, normVars>>

ValNext == Validate \/ Merge \/ Revalidate

SpecValidate == ValInit /\ [][ValNext]_vars

-----------------------------------------------------------------------------
(* validateFiles: claims *)

\* The reports made so far, each with the list it was made of.
Reports ==
    (IF vfPc \in {"validated", "merged", "revalidated"}
     THEN {[files |-> vfFiles, report |-> vfReport]} ELSE {})
    \cup (IF vfPc = "revalidated" THEN {[files |-> vfMerged, report |-> vfAfter]} ELSE {})

\* C25: a report has passed = true exactly when its issues are empty.
C25_PassedIffNoIssues ==
    \A r \in Reports : r.report.passed <=> r.report.issues = <<>>

\* C25 witness: a first report with issues and passed = false, and the report
\* on the merged list with no issue and passed = true.
C25_Witness ==
    /\ vfPc = "revalidated"
    /\ vfReport.issues # <<>> /\ ~vfReport.passed
    /\ vfAfter.issues = <<>> /\ vfAfter.passed

KeysOf(files) == {normalisePath(files[i].path) : i \in 1..Len(files)}

FileMapOf(files) ==
    MapSetAll(<<>>, [i \in 1..Len(files) |-> File(normalisePath(files[i].path), files[i].content)])

HasEntry(files) == P_index \in KeysOf(files)

HasIssue(report, kind) == \E i \in 1..Len(report.issues) : report.issues[i][1] = kind

\* The interactive-directive tokens a document can hold.
DirectiveTokens == {"x-directive", "@directive", "word@directive"}

\* A reference resolves when it is external or its normalised value is a key;
\* a stylesheet or script it resolves to must not be effectively empty.
Resolvable(ref, files) == isCdnOrAbsolute(ref) \/ normalisePath(ref) \in KeysOf(files)

ResolvableNonEmpty(ref, files) ==
    \/ isCdnOrAbsolute(ref)
    \/ /\ normalisePath(ref) \in KeysOf(files)
       /\ hasSubstantiveContent(ContentOf(FileMapOf(files), normalisePath(ref)))

\* Everything the claim asks of a valid set but the overview document.
ValidBesidesReadme(files) ==
    /\ HasEntry(files)
    /\ \A i \in 1..Len(files) : files[i].content.trimLen > 0
    /\ \A i \in 1..Len(files) : endsWithHtml(files[i].path) =>
        LET html == files[i].content IN
        /\ AllMarks \subseteq html.marks
        /\ \A k \in 1..Len(html.links) : ResolvableNonEmpty(html.links[k], files)
        /\ \A k \in 1..Len(html.scripts) : ResolvableNonEmpty(html.scripts[k], files)
        /\ \A k \in 1..Len(html.imgs) : Resolvable(html.imgs[k], files)
        /\ (html.marks \cap DirectiveTokens # {}) => "x-data" \in html.marks
    /\ \A i \in 1..Len(files) : endsWithCss(files[i].path) =>
        \A k \in 1..Len(files[i].content.urls) : Resolvable(files[i].content.urls[k], files)

\* Some file of the list is an overview document of at least 50 characters.
SomeReadmeLong(files) ==
    \E i \in 1..Len(files) :
        /\ toLowerCase(normalisePath(files[i].path)) = P_readmeLower
        /\ files[i].content.trimLen >= ReadmeMin

\* The overview document validateFiles reads, the first key that is readme.md
\* in lower case with the content last given for that key, has at least 50.
FirstReadmeLong(files) ==
    LET m == FileMapOf(files)
        idx == {i \in 1..Len(m) : toLowerCase(m[i].path) = P_readmeLower}
    IN  /\ idx # {}
        /\ m[CHOOSE i \in idx : \A j \in idx : i <= j].content.trimLen >= ReadmeMin

MissingEntryFails(r) ==
    ~HasEntry(r.files) => (~r.report.passed /\ HasIssue(r.report, "index-missing"))

\* C26 as stated: a set without index.html fails with the entry-missing issue,
\* and a set with the entry file, an overview document of at least 50 trimmed
\* characters, no empty file, well-formed markup, resolvable non-empty
\* references and no directive without x-data passes with no issue.
C26_AsStated ==
    \A r \in Reports :
        /\ MissingEntryFails(r)
        /\ (ValidBesidesReadme(r.files) /\ SomeReadmeLong(r.files)) =>
              (r.report.passed /\ r.report.issues = <<>>)

\* C26 amended: the same, where the overview document of at least 50 trimmed
\* characters is the one under the first key that is readme.md in lower case.
C26_EntryAndValidSet ==
    \A r \in Reports :
        /\ MissingEntryFails(r)
        /\ (ValidBesidesReadme(r.files) /\ FirstReadmeLong(r.files)) =>
              (r.report.passed /\ r.report.issues = <<>>)

\* C26 witness: a list without index.html was reported, and the merged list
\* is a valid set of several files.
C26_Witness ==
    /\ vfPc = "revalidated"
    /\ ~HasEntry(vfFiles)
    /\ Len(vfMerged) >= 3
    /\ ValidBesidesReadme(vfMerged) /\ FirstReadmeLong(vfMerged)

\* C26 witness: a valid set of three files whose markup references the
\* stylesheet of the set under ./
C26_WitnessReference ==
    /\ vfPc = "validated"
    /\ Len(vfFiles) = 3
    /\ vfFiles[1].content.links = <<P_dotCss>>
    /\ ValidBesidesReadme(vfFiles) /\ FirstReadmeLong(vfFiles)

\* The issues of the second report that name a path the patch corrected.
RemainingIssues ==
    {i \in 1..Len(vfAfter.issues) :
        \E k \in 1..Len(NamedPaths(vfAfter.issues[i])), j \in 1..Len(vfPatch) :
            normalisePath(NamedPaths(vfAfter.issues[i])[k]) = normalisePath(vfPatch[j].path)}

\* C28: after a patch that supplies corrected content, or the missing file,
\* for every path named by an issue of the first report, the report on the
\* merged list has no issue for those paths.
C28_RoundTrip ==
    vfPc = "revalidated" => RemainingIssues = {}

\* What holds of C28: the only issue left for a corrected path is the short
\* overview document, when the first report's short overview document is
\* kept under a key other than README.md; otherwise none is left.
C28_RoundTripButReadmeKey ==
    vfPc = "revalidated" =>
        /\ \A i \in RemainingIssues : vfAfter.issues[i][1] = "readme-short"
        /\ RemainingIssues # {} =>
              /\ HasIssue(vfReport, "readme-short")
              /\ P_readmeLower \in KeysOf(vfFiles)

\* The references of a markup document, each with the attribute it came from.
RefsOf(html) ==
    {<<"link", html.links[k]>> : k \in 1..Len(html.links)}
    \cup {<<"script", html.scripts[k]>> : k \in 1..Len(html.scripts)}
    \cup {<<"img", html.imgs[k]>> : k \in 1..Len(html.imgs)}

MissingKind(class) == class \o "-missing"

EmptyKinds(class) ==
    IF class = "link" THEN {"css-empty"} ELSE IF class = "script" THEN {"js-empty"} ELSE {}

\* The report holds an issue of one of the kinds for this file, quoting ref.
Quoted(report, kinds, filePath, ref) ==
    \E i \in 1..Len(report.issues) :
        /\ report.issues[i][1] \in kinds
        /\ report.issues[i][2] = filePath
        /\ report.issues[i][3] = ref

\* C29 as stated: a reference that starts with a remote-origin prefix or
\* data: raises no issue; any other raises an issue that names it exactly
\* when its normalised value is not a key of the set.
RefAsStated(report, files, filePath, class, ref) ==
    IF Len(ref) > 0 /\ ref[1] \in CDN_PREFIXES \cup {"data:"}
    THEN ~Quoted(report, {MissingKind(class)} \cup EmptyKinds(class), filePath, ref)
    ELSE Quoted(report, {MissingKind(class)} \cup EmptyKinds(class), filePath, ref)
            <=> normalisePath(ref) \notin KeysOf(files)

\* C29 amended: exempt are also blob: values and, for link, values starting
\* with # or mailto:; any other reference raises the missing-file issue
\* naming it exactly when its normalised value is not a key, and when it is
\* a key the only issue naming it is the effectively-empty one, for a
\* stylesheet (link to a .css key) or script whose stripped content has at
\* most 10 characters.
RefAmended(report, files, filePath, class, ref) ==
    IF \/ Len(ref) > 0 /\ ref[1] \in CDN_PREFIXES \cup {"data:", "blob:"}
       \/ class = "link" /\ Len(ref) > 0 /\ ref[1] \in {"#", "mailto:"}
    THEN ~Quoted(report, {MissingKind(class)} \cup EmptyKinds(class), filePath, ref)
    ELSE LET norm == normalisePath(ref) IN
         /\ Quoted(report, {MissingKind(class)}, filePath, ref) <=> norm \notin KeysOf(files)
         /\ Quoted(report, EmptyKinds(class), filePath, ref) <=>
               /\ norm \in KeysOf(files)
               /\ class = "script" \/ (class = "link" /\ endsWithCss(norm))
               /\ ~hasSubstantiveContent(ContentOf(FileMapOf(files), norm))

C29_WitnessExempt ==
    /\ vfPc = "validated"
    /\ Len(vfFiles) = 3
    /\ vfFiles[1].content.links = <<P_dotCss>>
    /\ P_css \in KeysOf(vfFiles)
    /\ vfReport.issues = <<>>

\* C30: a markup file gets the scope-declaration issue exactly when it holds
\* at least one interactive-directive token and no x-data anywhere.
C30_ScopeIssueIffDirective ==
    \A r \in Reports : \A i \in 1..Len(r.files) :
        endsWithHtml(r.files[i].path) =>
            (Quoted(r.report, {"no-x-data"}, normalisePath(r.files[i].path), NoPath)
                <=> /\ r.files[i].content.marks \cap DirectiveTokens # {}
                    /\ "x-data" \notin r.files[i].content.marks)

\* What holds of C30: the issue is raised exactly when the pattern matches and
\* x-data is nowhere in the file; the pattern matches the x- tokens, and an @
\* token only right after a word character.
C30_ScopeIssueIffPatternMatches ==
    \A r \in Reports : \A i \in 1..Len(r.files) :
        endsWithHtml(r.files[i].path) =>
            (Quoted(r.report, {"no-x-data"}, normalisePath(r.files[i].path), NoPath)
                <=> /\ r.files[i].content.marks \cap {"x-directive", "word@directive"} # {}
                    /\ "x-data" \notin r.files[i].content.marks)

====
